---- MODULE Spec2Model ----
(***************************************************************************)
(* A model of the bg3d decoding core: the LSPK package reader             *)
(* (package_reader.rs, bin_utils.rs) and the LSF resource reader          *)
(* (lsf_reader.rs).  Each part of the core has its own specification:     *)
(*   SpecRegions  LSFReader::read_regions, the tree assembler             *)
(*   SpecNode     LSFReader::read_node, the attribute-chain walk          *)
(*   SpecHeader   LSFReader::read_headers and the stamping in read        *)
(*   SpecPackage  PackageReader::read / decompress_file / extract_file    *)
(*   SpecAttrs    LSFReader::read_attributes_v2, the linking pass          *)
(*   SpecValue    read_string and read_translated_fs_string                *)
(*   SpecSections LSFReader::read from read_headers to read_regions        *)
(* Option<T> is a record [some, v]; Vec indices are 0-based as in the     *)
(* source, so element i of a Vec v is v[i + 1].                           *)
(***************************************************************************)
EXTENDS Integers, Sequences, FiniteSets, TLC

VARIABLES
    \* LSFReader fields read by read_regions and read_node
    names,              \* self.names: Vec<Vec<String>>
    attributes,         \* self.attributes: Vec<LSFAttributeInfo>
    values_len,         \* self.values.len()
    long_nodes,         \* the dialect selected in LSFReader::read
    \* read_regions
    node_infos,         \* the node-infos consumed by the loop so far
    node_instances,     \* Vec<Node>
    regions,            \* BTreeMap<String, usize>
    rpc,                \* "idle", "loop", "ok" (Resource returned), "err", "hang"
    \* read_node
    defn,               \* the LSFNodeInfo being read
    wpc,                \* "idle", "start", "walk", "ok", "err"
    cur,                \* index of the attribute the loop is at
    hops,               \* next_attribute_index links followed so far
    acc,                \* the attribute map built so far
    werr,               \* the error read_node returned, "" when none
    \* read_headers and the stamping of the Resource in read
    lsf_file,           \* the bytes of the LSF file, by header field
    version,            \* self.version: Option<LSFVersion>
    game_version,       \* self.game_version: PackedVersion
    res_meta,           \* the metadata of the Resource under construction
    hpc,                \* "idle", "start", "headers", "ok" (Resource returned), "err"
    herr,               \* the error LSFReader::read returned, "" when none
    sections,           \* read has gone on from read_headers to the sections
    \* PackageReader
    archive,            \* the buffered archive bytes, by field
    pos,                \* the position of self.reader
    ops,                \* operations called on the reader so far
    last,               \* the last operation, its argument and its result
    \* read_attributes_v2
    attr_stream,        \* the attribute section: its entries and bytes left over
    attr_st,            \* the locals of the loop
    apc,                \* "idle", "loop", "ok" (table returned), "err", "abort"
    \* read_string and read_translated_fs_string
    blob,               \* the bytes the value stream holds from its cursor on
    vreq,               \* the decoder called and its arguments
    vres,               \* its result, status "none" before the call
    \* the four sections in LSFReader::read
    metadata,           \* self.metadata, the sizes by section
    lsf_reader,         \* the cursor over the file: [pos, len] from the headers' end
    read_log,           \* per call of decompress that read: what it consumed
    spc                 \* "idle", "strings", "nodes", "attributes", "values", "ok", "err"

lsfVars ==
    <<names, attributes, values_len, long_nodes>>

treeVars ==
    <<node_infos, node_instances, regions, rpc>>

walkVars ==
    <<defn, wpc, cur, hops, acc, werr>>

headVars ==
    <<lsf_file, version, game_version, res_meta, hpc, herr, sections>>

vars ==
    <<names, attributes, values_len, long_nodes,
      node_infos, node_instances, regions, rpc,
      defn, wpc, cur, hops, acc, werr,
      lsf_file, version, game_version, res_meta, hpc, herr, sections,
      archive, pos, ops, last,
      attr_stream, attr_st, apc,
      blob, vreq, vres,
      metadata, lsf_reader, read_log, spc>>

pkgVars ==
    <<archive, pos, ops, last>>

attrVars ==
    <<attr_stream, attr_st, apc>>

valueVars ==
    <<blob, vreq, vres>>

sectVars ==
    <<metadata, lsf_reader, read_log, spc>>

\* What the actions of one specification leave alone.
notTree ==
    <<lsfVars, walkVars, headVars, pkgVars, attrVars, valueVars,
      sectVars>>

notNode ==
    <<lsfVars, treeVars, headVars, pkgVars, attrVars, valueVars,
      sectVars>>

notHead ==
    <<lsfVars, treeVars, walkVars, pkgVars, attrVars, valueVars,
      sectVars>>

notPkg ==
    <<lsfVars, treeVars, walkVars, headVars, attrVars, valueVars,
      sectVars>>

notAttr ==
    <<names, values_len, long_nodes, treeVars, walkVars, headVars, pkgVars,
      valueVars, sectVars>>

notSect ==
    <<lsfVars, treeVars, walkVars, lsf_file, game_version, res_meta, hpc, herr,
      sections, pkgVars, attrVars, valueVars>>

notValue ==
    <<lsfVars, treeVars, walkVars, headVars, pkgVars, attrVars,
      sectVars>>

(***************************************************************************)
(* Bounds of the model.                                                    *)
(***************************************************************************)
MaxNodes ==
    3

MaxAttrs ==
    2

MaxFiles ==
    2

MaxOps ==
    2

MaxStream ==
    3

MaxStr ==
    3

MaxDepth ==
    1

MaxSect ==
    2

\* The width the model gives the u32 size and offset fields of a file
\* entry, in place of 32.
SizeBits ==
    6

(***************************************************************************)
(* Option, Vec::get                                                        *)
(***************************************************************************)
None ==
    [some |-> FALSE, v |-> 0]

Some(x) ==
    [some |-> TRUE, v |-> x]

NoString ==
    [some |-> FALSE, v |-> ""]

InRange(vec, i) ==
    i >= 0 /\ i < Len(vec)

(***************************************************************************)
(* The name pool.  A name reference is the packed u32                      *)
(* name_hash_table_index: bucket in the high 16 bits, slot in the low 16.  *)
(***************************************************************************)
NamePools ==
    { << <<"A", "B">> >>, << <<"A">>, <<"A">> >> }

NameRefs ==
    {0, 1, 65536}

AllNames ==
    {"A", "B"}

NameIndexOf(name_hash_table_index) ==
    name_hash_table_index \div 65536

NameOffsetOf(name_hash_table_index) ==
    name_hash_table_index % 65536

LookupNameOrDefault(pool, name_index, name_offset) ==
    IF InRange(pool, name_index) /\ InRange(pool[name_index + 1], name_offset)
    THEN [some |-> TRUE, v |-> pool[name_index + 1][name_offset + 1]]
    ELSE [some |-> TRUE, v |-> "A"]

LookupName(pool, name_index, name_offset) ==
    IF ~InRange(pool, name_index) THEN NoString
    ELSE IF ~InRange(pool[name_index + 1], name_offset) THEN NoString
    ELSE [some |-> TRUE, v |-> pool[name_index + 1][name_offset + 1]]

(***************************************************************************)
(* Node entries and their normalisation to LSFNodeInfo.  The indices the   *)
(* model draws are >= -1, on which `as usize` is the identity.             *)
(***************************************************************************)
NodeInfoFromV3(val) ==
    [ parent_index |-> IF val.parent_index < 0 THEN None
                       ELSE Some(val.parent_index),
      name_index |-> NameIndexOf(val.name_hash_table_index),
      name_offset |-> NameOffsetOf(val.name_hash_table_index),
      first_attribute_index |-> IF val.first_attribute_index = -1 THEN None
                                ELSE Some(val.first_attribute_index) ]

NodeInfoFromV2(val) ==
    [ parent_index |-> IF val.parent_index < 0 THEN None
                       ELSE Some(val.parent_index),
      name_index |-> NameIndexOf(val.name_hash_table_index),
      name_offset |-> NameOffsetOf(val.name_hash_table_index),
      first_attribute_index |-> IF val.first_attribute_index = -1 THEN None
                                ELSE Some(val.first_attribute_index) ]

NodeInfoFrom(long, val) ==
    IF long THEN NodeInfoFromV3(val) ELSE NodeInfoFromV2(val)

(***************************************************************************)
(* Attribute entries.  type_and_length packs the 6-bit type tag in the low *)
(* bits and the length above it.                                           *)
(***************************************************************************)
TypeIdOf(type_and_length) ==
    type_and_length % 64

LengthOf(type_and_length) ==
    type_and_length \div 64

AttributeInfoFromV3(value) ==
    [ name_index |-> NameIndexOf(value.name_hash_table_index),
      name_offset |-> NameOffsetOf(value.name_hash_table_index),
      type_id |-> TypeIdOf(value.type_and_length),
      length |-> LengthOf(value.type_and_length),
      data_offset |-> value.offset,
      next_attribute_index |-> IF value.next_attribute_index >= 0
                               THEN Some(value.next_attribute_index)
                               ELSE None ]

ReadAttributesV3(stream) ==
    [i \in 1..Len(stream) |-> AttributeInfoFromV3(stream[i])]

\* prev_attribute_refs after the iteration for (node_index, index) of
\* read_attributes_v2 (lines 482-494): the slot of the node is set, after
\* padding when the Vec is too short.
PrevRefsKeepFirst(refs, node_index, index) ==
    IF Len(refs) > node_index
    THEN IF refs[node_index + 1].some THEN refs
         ELSE [refs EXCEPT ![node_index + 1] = Some(index)]
    ELSE refs \o [k \in 1..(node_index - Len(refs)) |-> None]
              \o <<Some(index)>>

PrevRefsAfter(refs, node_index, index) ==
    IF Len(refs) > node_index
    THEN [refs EXCEPT ![node_index + 1] = Some(index)]
    ELSE refs \o [k \in 1..(node_index - Len(refs)) |-> None]
              \o <<Some(index)>>

\* The next_attribute_index written into the previous attribute of the
\* node (line 486) by the iteration that reads attribute `index`.
NextOfPrevSelf(prev_ref, index) ==
    prev_ref

NextOfPrev(prev_ref, index) ==
    index

\* data_offset after an iteration (line 496).
DataOffsetAssigned(data_offset, length) ==
    length

DataOffsetAfter(data_offset, length) ==
    data_offset + length

\* One iteration of the loop of read_attributes_v2 on entry `attribute`;
\* st = [prev_attribute_refs, data_offset, index, attributes, aborted].
\* A node_index below -1 makes `node_index as usize` exceed every Vec
\* length, and the padding it asks for cannot be allocated.
ReadAttributesV2Step(st, attribute) ==
    LET resolved ==
            [ name_index |-> NameIndexOf(attribute.name_hash_table_index),
              name_offset |-> NameOffsetOf(attribute.name_hash_table_index),
              type_id |-> TypeIdOf(attribute.type_and_length),
              length |-> LengthOf(attribute.type_and_length),
              data_offset |-> st.data_offset,
              next_attribute_index |-> None ]
        node_index == attribute.node_index + 1
        refs == st.prev_attribute_refs
        index == st.index
        patched ==
            IF node_index >= 0 /\ Len(refs) > node_index
                  /\ refs[node_index + 1].some
                  /\ InRange(st.attributes, refs[node_index + 1].v)
            THEN [st.attributes EXCEPT ![refs[node_index + 1].v + 1]
                       .next_attribute_index =
                           Some(NextOfPrev(refs[node_index + 1].v, index))]
            ELSE st.attributes
        refs2 == PrevRefsAfter(refs, node_index, index)
    IN  IF st.aborted \/ node_index < 0
        THEN [st EXCEPT !.aborted = TRUE]
        ELSE [ prev_attribute_refs |-> refs2,
               data_offset |-> DataOffsetAfter(st.data_offset, resolved.length),
               index |-> index + 1,
               attributes |-> Append(patched, resolved),
               aborted |-> FALSE ]

RECURSIVE ReadAttributesV2From(_, _)
ReadAttributesV2From(st, stream) ==
    IF stream = <<>> THEN st
    ELSE ReadAttributesV2From(ReadAttributesV2Step(st, Head(stream)), Tail(stream))

ReadAttributesV2(stream) ==
    ReadAttributesV2From(
        [ prev_attribute_refs |-> <<>>, data_offset |-> 0, index |-> 0,
          attributes |-> <<>>, aborted |-> FALSE ],
        stream)

V2LoopStart ==
    [ prev_attribute_refs |-> <<>>, data_offset |-> 0, index |-> 0,
      attributes |-> <<>>, aborted |-> FALSE ]

AttrIdle ==
    /\ attr_stream = [entries |-> <<>>, left_over |-> 0]
    /\ attr_st = V2LoopStart
    /\ apc = "idle"

NoValue ==
    [status |-> "none", err |-> "", value |-> <<>>, pos |-> 0, count |-> None]

ValueIdle ==
    /\ blob = <<>>
    /\ vreq = [decoder |-> "none", length |-> 0, version |-> None,
               game_version |-> [major |-> 0, minor |-> 0, revision |-> 0,
                                 build |-> 0]]
    /\ vres = NoValue

SectIdle ==
    /\ metadata = [sizes |-> <<>>, compression_flags |-> 0, has_sibling_data |-> 0]
    /\ lsf_reader = [pos |-> 0, len |-> 0]
    /\ read_log = <<>>
    /\ spc = "idle"

(***************************************************************************)
(* The value decoder, as far as read_node depends on it: whether the read  *)
(* of a value of type type_id at data_offset succeeds on a values blob of  *)
(* vlen bytes.  Fixed-size types read FixedSize bytes, ScratchBuffer reads *)
(* `length` bytes, None reads nothing, an unknown tag is an error.  The     *)
(* string-valued tags (20-23, 28-30, 33) are decoded from the content of   *)
(* the blob and are not among the tags TypeAndLengths draws.               *)
(***************************************************************************)
FixedSize(type_id) ==
    CASE type_id = 0 -> 0
      [] type_id \in {1, 19, 27} -> 1
      [] type_id \in {2, 3} -> 2
      [] type_id \in {4, 5, 6} -> 4
      [] type_id \in {7, 24, 26, 32} -> 8
      [] type_id \in {8, 11} -> 8
      [] type_id \in {9, 12} -> 12
      [] type_id \in {10, 13, 14, 31} -> 16
      [] type_id = 15 -> 36
      [] type_id \in {16, 17} -> 48
      [] type_id = 18 -> 64
      [] OTHER -> -1

ReadAttributeOk(type_id, data_offset, length, vlen) ==
    IF type_id = 25 THEN data_offset + length <= vlen
    ELSE IF FixedSize(type_id) >= 0 THEN data_offset + FixedSize(type_id) <= vlen
    ELSE FALSE


(***************************************************************************)
(* The decoders of string values.  The value stream is a sequence of       *)
(* bytes b and a 0-based cursor p; a result is [status, err, value, pos,   *)
(* count]: "ok" with the value and the cursor after it, "err" with the     *)
(* error, or "panic"; count is the last arguments_len read, if any.  A     *)
(* String is the sequence of its UTF-8 bytes.                              *)
(***************************************************************************)
\* i32::from_le_bytes
I32Of(b, p) ==
    b[p + 1] + b[p + 2] * 256 + b[p + 3] * 65536
        + (IF b[p + 4] < 128 THEN b[p + 4] ELSE b[p + 4] - 256) * 16777216

\* ReadExt::read_i32 / read_u16: [ok, v, pos].
ReadI32(b, p) ==
    IF p + 4 > Len(b) THEN [ok |-> FALSE, v |-> 0, pos |-> p]
    ELSE [ok |-> TRUE, v |-> I32Of(b, p), pos |-> p + 4]

ReadU16(b, p) ==
    IF p + 2 > Len(b) THEN [ok |-> FALSE, v |-> 0, pos |-> p]
    ELSE [ok |-> TRUE, v |-> b[p + 1] + b[p + 2] * 256, pos |-> p + 2]

\* String::from_utf8 accepts the bytes.
RECURSIVE Utf8Valid(_)
Utf8Valid(bytes) ==
    LET n == Len(bytes)
        c == bytes[1]
        Cont(k) == k <= n /\ bytes[k] \in 128..191
        Rest(k) == Utf8Valid(SubSeq(bytes, k, n))
    IN  IF n = 0 THEN TRUE
        ELSE IF c < 128 THEN Rest(2)
        ELSE IF c \in 194..223 THEN Cont(2) /\ Rest(3)
        ELSE IF c = 224 THEN n >= 2 /\ bytes[2] \in 160..191 /\ Cont(3) /\ Rest(4)
        ELSE IF c = 237 THEN n >= 2 /\ bytes[2] \in 128..159 /\ Cont(3) /\ Rest(4)
        ELSE IF c \in 225..239 THEN Cont(2) /\ Cont(3) /\ Rest(4)
        ELSE IF c = 240
        THEN n >= 2 /\ bytes[2] \in 144..191 /\ Cont(3) /\ Cont(4) /\ Rest(5)
        ELSE IF c = 244
        THEN n >= 2 /\ bytes[2] \in 128..143 /\ Cont(3) /\ Cont(4) /\ Rest(5)
        ELSE IF c \in 241..243 THEN Cont(2) /\ Cont(3) /\ Cont(4) /\ Rest(5)
        ELSE FALSE

\* The index last_null that the loop of read_string ends with.
RECURSIVE LastNull(_, _)
LastNull(bytes, last_null) ==
    IF last_null > 0 /\ bytes[last_null] = 0
    THEN LastNull(bytes, last_null - 1)
    ELSE last_null

\* The conversion at the end of read_string.
FromUtf8(bytes, p) ==
    IF Utf8Valid(bytes)
    THEN [status |-> "ok", err |-> "", value |-> bytes, pos |-> p, count |-> None]
    ELSE [status |-> "err", err |-> "InvalidUtf8", value |-> <<>>, pos |-> p,
          count |-> None]

\* read_string(stream, length), length being the i32 or u32 read before
\* the cast `as u32`: a negative one asks for 2^31 bytes or more, which no
\* value stream of the model holds.
ReadString(b, p, length) ==
    LET bytes == SubSeq(b, p + 1, p + length)
    IN  IF length < 0 \/ p + length > Len(b)
        THEN [status |-> "err", err |-> "ShortRead", value |-> <<>>, pos |-> p,
              count |-> None]
        ELSE IF length = 0
        THEN [status |-> "ok", err |-> "", value |-> <<>>, pos |-> p,
              count |-> None]
        ELSE IF bytes[length] # 0
        THEN [status |-> "err", err |-> "NotNulTerminated", value |-> <<>>,
              pos |-> p + length, count |-> None]
        ELSE FromUtf8(SubSeq(bytes, 1, LastNull(bytes, length - 1)), p + length)

\* LSFVersion::VerBG3
VerBG3 ==
    4

ValueErr(err, p, count) ==
    [status |-> "err", err |-> err, value |-> <<>>, pos |-> p, count |-> count]

\* read_translated_fs_string(stream, version) and the loop over its
\* arguments (lines 734-751), `left` being the iterations still to run
\* and args the arguments pushed so far.  A negative arguments_len is
\* cast to a usize above isize::MAX, on which Vec::with_capacity panics
\* ("capacity overflow").
RECURSIVE ReadTranslatedFSString(_, _, _)
RECURSIVE ReadArguments(_, _, _, _, _, _)
ReadTranslatedFSString(b, p, ver) ==
    LET bg3 == ver.some /\ ver.v >= VerBG3
        str_version == ReadU16(b, p)
        value_length == ReadI32(b, p)
        value == ReadString(b, value_length.pos, value_length.v)
        head_ok == IF bg3 THEN str_version.ok
                   ELSE value_length.ok /\ value.status = "ok"
        head_err == IF bg3 \/ ~value_length.ok THEN "ShortRead" ELSE value.err
        p1 == IF bg3 THEN str_version.pos ELSE value.pos
        handle_length == ReadI32(b, p1)
        handle == ReadString(b, handle_length.pos, handle_length.v)
        arguments_len == ReadI32(b, handle.pos)
        base == [ version |-> IF bg3 THEN str_version.v ELSE 0,
                  value |-> IF bg3 THEN None ELSE Some(value.value),
                  handle |-> handle.value ]
    IN  IF ~head_ok THEN ValueErr(head_err, p, None)
        ELSE IF ~handle_length.ok THEN ValueErr("ShortRead", p1, None)
        ELSE IF handle.status # "ok" THEN ValueErr(handle.err, handle.pos, None)
        ELSE IF ~arguments_len.ok THEN ValueErr("ShortRead", handle.pos, None)
        ELSE IF arguments_len.v < 0
        THEN [status |-> "panic", err |-> "capacity overflow", value |-> <<>>,
              pos |-> arguments_len.pos, count |-> Some(arguments_len.v)]
        ELSE ReadArguments(b, arguments_len.pos, ver, base,
                           arguments_len.v, <<>>)

ReadArguments(b, p, ver, base, left, args) ==
    LET arg_key_length == ReadI32(b, p)
        key == ReadString(b, arg_key_length.pos, arg_key_length.v)
        arg_string == ReadTranslatedFSString(b, key.pos, ver)
        arg_value_length == ReadI32(b, arg_string.pos)
        value == ReadString(b, arg_value_length.pos, arg_value_length.v)
        arg == [key |-> key.value, string |-> arg_string.value,
                value |-> value.value]
        count == Some(left + Len(args))
    IN  IF left = 0
        THEN [status |-> "ok", err |-> "",
              value |-> [base |-> base, arguments |-> args],
              pos |-> p, count |-> count]
        ELSE IF ~arg_key_length.ok THEN ValueErr("ShortRead", p, count)
        ELSE IF key.status # "ok" THEN ValueErr(key.err, key.pos, count)
        ELSE IF arg_string.status # "ok"
        THEN [arg_string EXCEPT !.value = <<>>]
        ELSE IF ~arg_value_length.ok
        THEN ValueErr("ShortRead", arg_string.pos, count)
        ELSE IF value.status # "ok" THEN ValueErr(value.err, value.pos, count)
        ELSE ReadArguments(b, value.pos, ver, base, left - 1, Append(args, arg))

\* The test of read_attribute (lines 528-537) under which a
\* TranslatedString carries a u16 version and no inline value.
NoInlineValueByVersion(ver, gv) ==
    ver.some /\ ver.v >= VerBG3

NoInlineValue(ver, gv) ==
    \/ ver.some /\ ver.v >= VerBG3
    \/ gv.major > 4
    \/ gv.major = 4 /\ gv.revision > 0
    \/ gv.major = 4 /\ gv.revision = 0 /\ gv.build >= 26

\* The TranslatedString arm of read_attribute (lines 524-557).
ReadTranslatedString(b, p, ver, gv) ==
    LET no_inline == NoInlineValue(ver, gv)
        str_version == ReadU16(b, p)
        value_length == ReadI32(b, p)
        value == ReadString(b, value_length.pos, value_length.v)
        head_ok == IF no_inline THEN str_version.ok
                   ELSE value_length.ok /\ value.status = "ok"
        head_err == IF no_inline \/ ~value_length.ok THEN "ShortRead"
                    ELSE value.err
        p1 == IF no_inline THEN str_version.pos ELSE value.pos
        handle_length == ReadI32(b, p1)
        handle == ReadString(b, handle_length.pos, handle_length.v)
    IN  IF ~head_ok THEN ValueErr(head_err, p, None)
        ELSE IF ~handle_length.ok THEN ValueErr("ShortRead", p1, None)
        ELSE IF handle.status # "ok" THEN ValueErr(handle.err, handle.pos, None)
        ELSE [ status |-> "ok", err |-> "",
               value |-> [ version |-> IF no_inline THEN str_version.v ELSE 0,
                           value |-> IF no_inline THEN None
                                     ELSE Some(value.value),
                           handle |-> handle.value ],
               pos |-> handle.pos, count |-> None ]

(***************************************************************************)
(* The engine version.  The 8 bytes after the magic are four little-endian *)
(* 16-bit limbs <<l0, l1, l2, l3>> (l0 = bits 0..15); the i64 form is all  *)
(* four, the i32 form the first two.  Shifts and masks of the two's        *)
(* complement bit pattern are taken on the limbs.                          *)
(***************************************************************************)
PackedVersionFromI64Unmasked(packed) ==
    [ major |-> packed[4] \div 128,
      minor |-> (packed[4] % 128) * 2 + (packed[3] \div 32768),
      revision |-> (packed[3] % 32768) * 2 + (packed[2] \div 32768),
      build |-> (packed[2] % 32768) * 65536 + packed[1] ]

PackedVersionFromI64(packed) ==
    [ major |-> (packed[4] \div 128) % 128,
      minor |-> (packed[4] % 128) * 2 + (packed[3] \div 32768),
      revision |-> (packed[3] % 32768) * 2 + (packed[2] \div 32768),
      build |-> (packed[2] % 32768) * 65536 + packed[1] ]

PackedVersionFromI32(packed) ==
    [ major |-> (packed[2] \div 4096) % 16,
      minor |-> (packed[2] \div 256) % 16,
      revision |-> packed[2] % 256,
      build |-> packed[1] ]

PackedVersionDefault ==
    PackedVersionFromI32(<<0, 0>>)

\* LSFVersion::get
LSFVersionGet(n) ==
    IF n \in 1..7 THEN Some(n) ELSE None

VerBG3ExtendedHeader ==
    5

VerBG3AdditionalBlob ==
    6

\* Lines 315-328 of read_headers: the gates on the signature and on the
\* version, on a header whose 8 bytes of LSFMagic were read.
LsfGateVersionFirst(magic_ok, ver) ==
    IF ~LSFVersionGet(ver).some THEN "UnsupportedLSFVersion"
    ELSE IF ~magic_ok THEN "NotLSF"
    ELSE "ok"

LsfGate(magic_ok, ver) ==
    IF ~magic_ok THEN "NotLSF"
    ELSE IF ~LSFVersionGet(ver).some THEN "UnsupportedLSFVersion"
    ELSE "ok"

\* LSMetadata of Resource::default(): major_version 3, the rest 0.
ResourceDefaultMetadata ==
    [major_version |-> 3, minor_version |-> 0, revision |-> 0, build_number |-> 0]

HeadIdle ==
    /\ lsf_file = [len |-> 0, magic_ok |-> FALSE, version |-> 0,
                   engine |-> <<0, 0, 0, 0>>]
    /\ version = None
    /\ game_version = PackedVersionDefault
    /\ res_meta = ResourceDefaultMetadata
    /\ hpc = "idle"
    /\ herr = ""
    /\ sections = FALSE

(***************************************************************************)
(* The package reader.  An archive is [len, sig_ok, version,               *)
(* file_list_offset, flags, priority, num_files, compressed_size, list_ok, *)
(* list, data_dec]: its length in bytes; whether bytes 0..3 are "LSPK";    *)
(* the u32 at 4; the fields of the LSPKHeader16 at 4..39; the two u32 at   *)
(* file_list_offset; whether the compressed_size bytes after them are a    *)
(* valid LZ4 block and the FileEntry18 records they decode to; and the     *)
(* number of bytes the data of an entry decodes to under the entry's       *)
(* method (-1: the codec reports a corrupt payload).  "LSPK" occurs at     *)
(* offset 0 only.  The u32 fields of a file entry are SizeBits wide, and   *)
(* the limit 0x7fffffff on size_on_disk is the largest signed value of     *)
(* that width.                                                             *)
(***************************************************************************)
U32Max ==
    2 ^ SizeBits - 1

MaxEntrySize ==
    2 ^ (SizeBits - 1) - 1

V18 ==
    18

SIZE_OF_FILE_ENTRY_18 ==
    272

NoPfi ==
    [ offset_in_file |-> 0, size_on_disk |-> 0, uncompressed_size |-> 0,
      archive_part |-> 0, flags |-> 0, crc |-> 0, name |-> "" ]

NoResult ==
    [ op |-> "none", status |-> "none", err |-> "", stage |-> "",
      start |-> 0, files |-> <<>>, pfi |-> NoPfi, len |-> 0 ]

PkgIdle ==
    /\ archive = [ len |-> 0, sig_ok |-> FALSE, version |-> 0,
                   file_list_offset |-> 0, flags |-> 0, priority |-> 0,
                   num_files |-> 0, compressed_size |-> 0, list_ok |-> FALSE,
                   list |-> <<>>, data_dec |-> 0 ]
    /\ pos = 0
    /\ ops = 0
    /\ last = NoResult

\* CompressionMethod::get: the method nibble, or None (-1).
CompressionMethodGet(flags) ==
    IF flags % 16 \in 0..3 THEN flags % 16 ELSE -1

\* bin_utils::decompress on `compressed_len` bytes that decode to `dec`
\* bytes under the method of compression_flags: [ok, len].  read_exact
\* into an empty buffer succeeds without reading; lz4_flex's block
\* decompress returns the bytes decoded when they fit decompressed_size.
\* The match has no arm for ZSTD: the method is reported unsupported.
Decompress(compressed_len, dec, decompressed_size, compression_flags, chunked) ==
    LET method == CompressionMethodGet(compression_flags)
    IN  CASE method = 2 /\ chunked ->
                 IF decompressed_size = 0 \/ (dec >= decompressed_size)
                 THEN [ok |-> TRUE, len |-> decompressed_size]
                 ELSE [ok |-> FALSE, len |-> 0]
          [] method = 2 /\ ~chunked ->
                 IF dec >= 0 /\ dec <= decompressed_size
                 THEN [ok |-> TRUE, len |-> dec]
                 ELSE [ok |-> FALSE, len |-> 0]
          [] method = 1 ->
                 IF decompressed_size = 0 \/ (dec >= decompressed_size)
                 THEN [ok |-> TRUE, len |-> decompressed_size]
                 ELSE [ok |-> FALSE, len |-> 0]
          [] method = 0 -> [ok |-> TRUE, len |-> compressed_len]
          [] OTHER -> [ok |-> FALSE, len |-> 0]

\* The cursor after a read_exact that fails at position p: where it was,
\* or the end of the buffer, by the version of the standard library.
ErrPos(p, len) ==
    {p, len}

\* Lines 62-81 of read: the gates on the signature and on the version.
HeaderGateVersionFirst(sig_ok, ver) ==
    IF ver # V18 THEN "UnsupportedPackageVersion"
    ELSE IF ~sig_ok THEN "NotLSPK"
    ELSE "ok"

HeaderGate(sig_ok, ver) ==
    IF ~sig_ok THEN "NotLSPK"
    ELSE IF ver # V18 THEN "UnsupportedPackageVersion"
    ELSE "ok"

\* Lines 158-159: the flags of a file entry are supported.
FlagsSupportedNibbleOnly(flags) ==
    ~(flags % 16 > 3)

FlagsSupported(flags) ==
    ~(flags % 16 > 3 \/ flags >= 128)

\* Lines 166-175: the PackagedFileInfo of a file entry.
PackagedFileInfoOf(file_entry) ==
    [ offset_in_file |-> file_entry.offset_in_file_1
                           + file_entry.offset_in_file_2 * 2 ^ SizeBits,
      size_on_disk |-> file_entry.size_on_disk,
      uncompressed_size |-> file_entry.uncompressed_size,
      archive_part |-> file_entry.archive_part,
      flags |-> file_entry.flags,
      crc |-> 0,
      name |-> file_entry.name ]

\* The offsets, from the start of the LSPKHeader16, at which a field ends.
HeaderFieldEnds ==
    {4, 12, 16, 17, 18} \cup 19..34 \cup {36}

\* Where deserializing the header stops when only `avail` bytes remain.
HeaderStop(avail) ==
    CHOOSE e \in HeaderFieldEnds \cup {0} :
        /\ e <= avail
        /\ \A f \in HeaderFieldEnds : f <= avail => f <= e

ReadResult(start, status, err, stage, files) ==
    [ op |-> "read", status |-> status, err |-> err, stage |-> stage,
      start |-> start, files |-> files, pfi |-> NoPfi, len |-> 0 ]

\* read_file_list_v18 with the cursor at file_list_offset: the set of
\* [last, pos] it can end in.
ReadFileListV18(a, start) ==
    LET flo == a.file_list_offset
        avail == IF a.len > flo + 8 THEN a.len - (flo + 8) ELSE 0
        read == IF a.compressed_size < avail THEN a.compressed_size ELSE avail
        after == flo + 8 + read
        filebuffer_size == SIZE_OF_FILE_ENTRY_18 * a.num_files
        decoded_len == SIZE_OF_FILE_ENTRY_18 * Len(a.list)
        files == [i \in 1..Len(a.list) |-> PackagedFileInfoOf(a.list[i])]
        Fail(err, stage, positions) ==
            { [last |-> ReadResult(start, "err", err, stage, <<>>), pos |-> q] :
                  q \in positions }
        decoded ==
            IF ~a.list_ok \/ decoded_len > filebuffer_size
            THEN Fail("DecompressFailed", "lz4", {after})
            ELSE IF decoded_len # filebuffer_size
            THEN Fail("SizeMismatch", "lz4", {after})
            ELSE IF \E i \in 1..Len(a.list) : ~FlagsSupported(a.list[i].flags)
            THEN Fail("UnsupportedEntryFlags", "entries", {after})
            ELSE { [last |-> ReadResult(start, "ok", "", "entries", files),
                    pos |-> after] }
    IN  IF flo + 4 > a.len
        THEN Fail("ShortRead", "num_files", ErrPos(flo, a.len))
        ELSE IF flo + 8 > a.len
        THEN Fail("ShortRead", "compressed_size", ErrPos(flo + 4, a.len))
        ELSE IF read = 0
        THEN Fail("EmptyFileList", "file_list", {after})
        ELSE IF read < a.compressed_size
        \* the buffer is filled in part and handed to the LZ4 decoder: it
        \* is rejected, or what it holds decodes as the full block does
        THEN Fail("DecompressFailed", "lz4_partial", {after}) \cup
             { [o EXCEPT !.last.stage = "lz4_partial"] : o \in decoded }
        ELSE decoded

\* PackageReader::read with the cursor at p: the set of [last, pos] it
\* can end in.
PackageRead(a, p) ==
    LET Fail(err, stage, positions) ==
            { [last |-> ReadResult(p, "err", err, stage, <<>>), pos |-> q] :
                  q \in positions }
        sig_ok == p = 0 /\ a.sig_ok
        gate == HeaderGate(sig_ok, a.version)
    IN  IF p + 4 > a.len
        THEN Fail("ShortRead", "signature", ErrPos(p, a.len))
        ELSE IF p + 8 > a.len
        THEN IF ~sig_ok THEN Fail("NotLSPK", "signature", {p + 4})
             ELSE Fail("ShortRead", "version", ErrPos(p + 4, a.len))
        ELSE IF gate = "NotLSPK"
        THEN Fail("NotLSPK", "signature", {p + 4})
        ELSE IF gate = "UnsupportedPackageVersion"
        THEN Fail("UnsupportedPackageVersion", "version", {p + 8})
        ELSE IF p + 40 > a.len
        THEN Fail("ShortRead", "header",
                  ErrPos(p + 4 + HeaderStop(a.len - (p + 4)), a.len))
        ELSE ReadFileListV18(a, p)

DecompressResult(op, start, pfi, status, err, stage, len) ==
    [ op |-> op, status |-> status, err |-> err, stage |-> stage,
      start |-> start, files |-> <<>>, pfi |-> pfi, len |-> len ]

\* PackageReader::decompress_file(pfi) with the cursor at p, reported
\* under operation name op: the set of [last, pos] it can end in.  The
\* model draws entries with crc = 0.
DecompressFileNoSeek(a, p, pfi, op) ==
    LET off == p
        r == Decompress(pfi.size_on_disk, a.data_dec, pfi.uncompressed_size,
                        pfi.flags, FALSE)
    IN  IF off + pfi.size_on_disk > a.len
        THEN { [last |-> DecompressResult(op, p, pfi, "err", "ShortRead", "read", 0),
                pos |-> q] : q \in ErrPos(off, a.len) }
        ELSE IF ~r.ok
        THEN { [last |-> DecompressResult(op, p, pfi, "err", "DecompressFailed",
                                          "codec", 0),
                pos |-> off + pfi.size_on_disk] }
        ELSE { [last |-> DecompressResult(op, p, pfi, "ok", "", "codec", r.len),
                pos |-> off + pfi.size_on_disk] }

DecompressFile(a, p, pfi, op) ==
    LET off == pfi.offset_in_file
        r == Decompress(pfi.size_on_disk, a.data_dec, pfi.uncompressed_size,
                        pfi.flags, FALSE)
    IN  IF off + pfi.size_on_disk > a.len
        THEN { [last |-> DecompressResult(op, p, pfi, "err", "ShortRead", "read", 0),
                pos |-> q] : q \in ErrPos(off, a.len) }
        ELSE IF ~r.ok
        THEN { [last |-> DecompressResult(op, p, pfi, "err", "DecompressFailed",
                                          "codec", 0),
                pos |-> off + pfi.size_on_disk] }
        ELSE { [last |-> DecompressResult(op, p, pfi, "ok", "", "codec", r.len),
                pos |-> off + pfi.size_on_disk] }

\* PackageReader::extract_file(file, output_path) with the cursor at p;
\* io: "ok", or the step of the file system that fails ("no_dir": the
\* output directory cannot be created, "no_file": the output file cannot
\* be opened or written).
ExtractFile(a, p, pfi, io) ==
    IF io = "no_dir"
    THEN { [last |-> DecompressResult("extract_file", p, pfi, "err", "Io",
                                      "directory", 0), pos |-> p] }
    ELSE IF pfi.flags % 16 = 0
    THEN { [last |-> DecompressResult("extract_file", p, pfi, "panic", "todo",
                                      "method", 0), pos |-> p] }
    ELSE IF pfi.size_on_disk > MaxEntrySize
    THEN { [last |-> DecompressResult("extract_file", p, pfi, "err",
                                      "EntryTooLarge", "size", 0), pos |-> p] }
    ELSE { IF o.last.status = "ok" /\ io = "no_file"
           THEN [o EXCEPT !.last.status = "err", !.last.err = "Io",
                          !.last.stage = "write", !.last.len = 0]
           ELSE o :
               o \in DecompressFile(a, p, pfi, "extract_file") }

(***************************************************************************)
(* read_node.  The attribute map is the set of its (name, type) entries;   *)
(* inserting under an existing name overwrites.                            *)
(***************************************************************************)
MapInsert(map, attr_name, type_id) ==
    {x \in map : x.name # attr_name} \cup {[name |-> attr_name, ty |-> type_id]}

\* The name of the node, or the error of lines 180-196.
NodeName(pool, d) ==
    LookupName(pool, d.name_index, d.name_offset)

\* One iteration of the loop of read_node at attribute index idx with the
\* map built so far: "err" (the value read or the name lookup fails, or
\* the next index is out of the table), "done" (no next index: break) or
\* "next" (the loop goes on at .idx).
WalkHop(pool, attrs, vlen, idx, map) ==
    LET attribute == attrs[idx + 1]
        attr_name == LookupName(pool, attribute.name_index, attribute.name_offset)
        map2 == MapInsert(map, attr_name.v, attribute.type_id)
        next == attribute.next_attribute_index
    IN  IF ~ReadAttributeOk(attribute.type_id, attribute.data_offset,
                            attribute.length, vlen)
        THEN [status |-> "err", err |-> "Value", idx |-> idx, map |-> map]
        ELSE IF ~attr_name.some
        THEN [status |-> "err", err |-> "BadNameRef", idx |-> idx, map |-> map]
        ELSE IF ~next.some
        THEN [status |-> "done", err |-> "", idx |-> idx, map |-> map2]
        ELSE IF ~InRange(attrs, next.v)
        THEN [status |-> "err", err |-> "BadAttributeRef", idx |-> idx,
              map |-> map2]
        ELSE [status |-> "next", err |-> "", idx |-> next.v, map |-> map2]

\* The loop run to its end.  An iteration depends on the attribute index
\* alone (the stream is re-positioned at every iteration), so the loop
\* never ends once an index comes back: "hang".
RECURSIVE WalkFrom(_, _, _, _, _, _)
WalkFrom(pool, attrs, vlen, idx, map, seen) ==
    LET h == WalkHop(pool, attrs, vlen, idx, map)
    IN  IF h.status = "err" THEN [status |-> "err", map |-> {}]
        ELSE IF h.status = "done" THEN [status |-> "ok", map |-> h.map]
        ELSE IF h.idx \in seen \cup {idx} THEN [status |-> "hang", map |-> {}]
        ELSE WalkFrom(pool, attrs, vlen, h.idx, h.map, seen \cup {idx})

\* read_node as a whole: [status, name, attributes].
ReadNode(pool, attrs, vlen, d) ==
    LET name == NodeName(pool, d)
    IN  IF ~name.some
        THEN [status |-> "err", name |-> "", attributes |-> {}]
        ELSE IF ~d.first_attribute_index.some
        THEN [status |-> "ok", name |-> name.v, attributes |-> {}]
        ELSE IF ~InRange(attrs, d.first_attribute_index.v)
        THEN [status |-> "err", name |-> name.v, attributes |-> {}]
        ELSE LET w == WalkFrom(pool, attrs, vlen, d.first_attribute_index.v, {}, {})
             IN  [status |-> w.status, name |-> name.v, attributes |-> w.map]

(***************************************************************************)
(* read_regions                                                            *)
(***************************************************************************)
NoChildren ==
    [k \in AllNames |-> <<>>]

\* children is a BTreeMap<String, Vec<usize>>; a key is present iff its
\* sequence is not empty.
AppendChildReplacing(node, child_name, child_idx) ==
    [node EXCEPT !.children[child_name] = <<child_idx>>]

AppendChild(node, child_name, child_idx) ==
    [node EXCEPT !.children[child_name] = Append(@, child_idx)]

\* The parent field of a plain node (lines 125-129).
ParentFieldUnchecked(instances, parent_idx) ==
    Some(parent_idx)

ParentField(instances, parent_idx) ==
    IF ~InRange(instances, parent_idx) THEN None ELSE Some(parent_idx)

\* node_idx, taken before the push (lines 139 and 161).
NodeIdxAfterPush(instances) ==
    Len(instances) + 1

NodeIdx(instances) ==
    Len(instances)

RegionsInsert(map, key, idx) ==
    [k \in DOMAIN map \cup {key} |-> IF k = key THEN idx ELSE map[k]]

PlainNode(node_data, parent) ==
    [ kind |-> [tag |-> "Node", name |-> ""],
      attributes |-> node_data.attributes,
      name |-> node_data.name,
      parent |-> parent,
      children |-> NoChildren ]

RegionNode(node_data) ==
    [ kind |-> [tag |-> "Region", name |-> node_data.name],
      attributes |-> node_data.attributes,
      name |-> node_data.name,
      parent |-> None,
      children |-> NoChildren ]

\* The raw node entries the model draws for the next iteration.
NodeEntries ==
    [ name_hash_table_index : NameRefs,
      parent_index : -1..MaxNodes,
      first_attribute_index : -1..1 ]

\* The attribute tables of SpecRegions: V3 tables of at most one entry.
TreeAttrStreams ==
    {<<>>} \cup
    { <<e>> : e \in [ name_hash_table_index : {0, 65536},
                      type_and_length : {0},
                      next_attribute_index : {-1, 0},
                      offset : {0} ] }

WalkIdle ==
    /\ defn = NodeInfoFromV3([name_hash_table_index |-> 0, parent_index |-> -1,
                              first_attribute_index |-> -1])
    /\ wpc = "idle"
    /\ cur = 0
    /\ hops = 0
    /\ acc = {}
    /\ werr = ""

InitRegions ==
    /\ names \in NamePools
    /\ \E s \in TreeAttrStreams : attributes = ReadAttributesV3(s)
    /\ values_len = 0
    /\ long_nodes \in BOOLEAN
    /\ node_infos = <<>>
    /\ node_instances = <<>>
    /\ regions = [k \in {} |-> 0]
    /\ rpc = "loop"
    /\ WalkIdle
    /\ HeadIdle
    /\ PkgIdle
    /\ AttrIdle
    /\ ValueIdle
    /\ SectIdle

\* read_node fails: the error is returned by read_regions (line 120).
ReadNodeFails ==
    /\ rpc = "loop"
    /\ Len(node_infos) < MaxNodes
    /\ \E e \in NodeEntries :
         LET node_info == NodeInfoFrom(long_nodes, e)
             node_data == ReadNode(names, attributes, values_len, node_info)
         IN  /\ node_data.status = "err"
             /\ node_infos' = Append(node_infos, node_info)
             /\ rpc' = "err"
    /\ UNCHANGED <<node_instances, regions>>
    /\ UNCHANGED notTree

\* read_node never returns.
ReadNodeDiverges ==
    /\ rpc = "loop"
    /\ Len(node_infos) < MaxNodes
    /\ \E e \in NodeEntries :
         LET node_info == NodeInfoFrom(long_nodes, e)
             node_data == ReadNode(names, attributes, values_len, node_info)
         IN  /\ node_data.status = "hang"
             /\ node_infos' = Append(node_infos, node_info)
             /\ rpc' = "hang"
    /\ UNCHANGED <<node_instances, regions>>
    /\ UNCHANGED notTree

\* parent_index is present and get_mut(parent_idx) finds a node after the
\* push (lines 123-148).
PushChild ==
    /\ rpc = "loop"
    /\ Len(node_infos) < MaxNodes
    /\ \E e \in NodeEntries :
         LET node_info == NodeInfoFrom(long_nodes, e)
             node_data == ReadNode(names, attributes, values_len, node_info)
             parent_idx == node_info.parent_index.v
             node == PlainNode(node_data, ParentField(node_instances, parent_idx))
             node_idx == NodeIdx(node_instances)
             pushed == Append(node_instances, node)
         IN  /\ node_data.status = "ok"
             /\ node_info.parent_index.some
             /\ InRange(pushed, parent_idx)
             /\ node_infos' = Append(node_infos, node_info)
             /\ node_instances' =
                    [pushed EXCEPT ![parent_idx + 1] =
                         AppendChild(@, node_data.name, node_idx)]
    /\ UNCHANGED <<regions, rpc>>
    /\ UNCHANGED notTree

\* parent_index is present and get_mut(parent_idx) finds nothing: the
\* error of lines 143-147.
ParentMissing ==
    /\ rpc = "loop"
    /\ Len(node_infos) < MaxNodes
    /\ \E e \in NodeEntries :
         LET node_info == NodeInfoFrom(long_nodes, e)
             node_data == ReadNode(names, attributes, values_len, node_info)
             parent_idx == node_info.parent_index.v
             node == PlainNode(node_data, ParentField(node_instances, parent_idx))
             pushed == Append(node_instances, node)
         IN  /\ node_data.status = "ok"
             /\ node_info.parent_index.some
             /\ ~InRange(pushed, parent_idx)
             /\ node_infos' = Append(node_infos, node_info)
             /\ node_instances' = pushed
             /\ rpc' = "err"
    /\ UNCHANGED regions
    /\ UNCHANGED notTree

\* parent_index is absent (lines 149-164).
PushRegion ==
    /\ rpc = "loop"
    /\ Len(node_infos) < MaxNodes
    /\ \E e \in NodeEntries :
         LET node_info == NodeInfoFrom(long_nodes, e)
             node_data == ReadNode(names, attributes, values_len, node_info)
             node_idx == NodeIdx(node_instances)
         IN  /\ node_data.status = "ok"
             /\ ~node_info.parent_index.some
             /\ node_infos' = Append(node_infos, node_info)
             /\ node_instances' = Append(node_instances, RegionNode(node_data))
             /\ regions' = RegionsInsert(regions, node_data.name, node_idx)
    /\ UNCHANGED rpc
    /\ UNCHANGED notTree

\* The node-infos are exhausted: the Resource is built and returned
\* (lines 167-172).
ReturnResource ==
    /\ rpc = "loop"
    /\ rpc' = "ok"
    /\ UNCHANGED <<node_infos, node_instances, regions>>
    /\ UNCHANGED notTree

NextRegions ==
    \/ ReadNodeFails
    \/ ReadNodeDiverges
    \/ PushChild
    \/ ParentMissing
    \/ PushRegion
    \/ ReturnResource

SpecRegions ==
    InitRegions /\ [][NextRegions]_vars

\* The nodes of the returned Resource, by 0-based index.
NodeAt(i) ==
    node_instances[i + 1]

NodeIndices ==
    0..(Len(node_instances) - 1)

(***************************************************************************)
(* C1: in a returned Resource every node whose parent field is present     *)
(* has a parent index smaller than its own index.                          *)
(***************************************************************************)
C1_ParentsPrecede ==
    rpc = "ok" =>
        \A n \in NodeIndices :
            NodeAt(n).parent.some => NodeAt(n).parent.v < n

C1_Witness ==
    /\ rpc = "ok"
    /\ \E n \in NodeIndices : NodeAt(n).parent.some /\ NodeAt(n).parent.v < n
    /\ \E n \in NodeIndices :
           node_infos[n + 1].parent_index.some /\ ~NodeAt(n).parent.some

(***************************************************************************)
(* C2: in a returned Resource every index listed in a children sequence    *)
(* of the node at index i is greater than i (no node is its own child).    *)
(***************************************************************************)
C2_ChildrenFollow ==
    rpc = "ok" =>
        \A i \in NodeIndices : \A k \in AllNames :
            \A j \in 1..Len(NodeAt(i).children[k]) :
                NodeAt(i).children[k][j] > i

(***************************************************************************)
(* C3: in a returned Resource every key k of the region map refers to an   *)
(* in-range node of kind Region whose name is k.                           *)
(***************************************************************************)
C3_RegionMap ==
    rpc = "ok" =>
        \A k \in DOMAIN regions :
            /\ InRange(node_instances, regions[k])
            /\ NodeAt(regions[k]).kind = [tag |-> "Region", name |-> k]
            /\ NodeAt(regions[k]).name = k

\* Two roots share a name and the map holds the later one.
C3_Witness ==
    /\ rpc = "ok"
    /\ \E i, j \in NodeIndices :
           /\ i < j
           /\ NodeAt(i).kind.tag = "Region"
           /\ NodeAt(j).kind.tag = "Region"
           /\ NodeAt(i).name = NodeAt(j).name
           /\ regions[NodeAt(j).name] = j

(***************************************************************************)
(* C16: a Resource is returned only when no node-info carries a            *)
(* parent_index at or above its own position in the stream: such a         *)
(* node-info fails the read with a bad-parent-reference error.             *)
(***************************************************************************)
C16_BadParentFails ==
    rpc = "ok" =>
        \A i \in 0..(Len(node_infos) - 1) :
            node_infos[i + 1].parent_index.some =>
                node_infos[i + 1].parent_index.v < i

(***************************************************************************)
(* C18: in a returned Resource a node is a Region carrying its own name    *)
(* exactly when its parent field is absent and a plain Node exactly when   *)
(* it is present, and every Region is in the region map under its name     *)
(* (at its own index or at that of a later Region of the same name).       *)
(***************************************************************************)
C18_KindFollowsParent ==
    rpc = "ok" =>
        \A n \in NodeIndices :
            /\ NodeAt(n).kind.tag = "Region" <=> ~NodeAt(n).parent.some
            /\ NodeAt(n).kind.tag = "Node" <=> NodeAt(n).parent.some
            /\ NodeAt(n).kind.tag = "Region" =>
                   /\ NodeAt(n).kind.name = NodeAt(n).name
                   /\ NodeAt(n).name \in DOMAIN regions
                   /\ regions[NodeAt(n).name] >= n

(***************************************************************************)
(* C26: in a returned Resource every children sequence is strictly         *)
(* increasing, every index in the sequence of key k is that of an existing *)
(* node named k, and every node read with a parent_index is listed by that *)
(* parent under its own name, whatever other children have the name.       *)
(***************************************************************************)
C26_ChildrenMultiMap ==
    rpc = "ok" =>
        /\ \A i \in NodeIndices : \A k \in AllNames :
               LET seq == NodeAt(i).children[k]
               IN  /\ \A a, b \in 1..Len(seq) : a < b => seq[a] < seq[b]
                   /\ \A a \in 1..Len(seq) :
                          /\ InRange(node_instances, seq[a])
                          /\ NodeAt(seq[a]).name = k
        /\ \A j \in NodeIndices :
               node_infos[j + 1].parent_index.some =>
                   LET seq == NodeAt(node_infos[j + 1].parent_index.v)
                                  .children[NodeAt(j).name]
                   IN  \E a \in 1..Len(seq) : seq[a] = j

\* A region with two children of the same name.
C26_Witness ==
    /\ rpc = "ok"
    /\ Len(node_instances) = 3
    /\ NodeAt(1).name = NodeAt(2).name
    /\ NodeAt(0).children[NodeAt(1).name] = <<1, 2>>

(***************************************************************************)
(* SpecNode: read_node on one node-info, one action per early return and   *)
(* per iteration of the attribute loop.  The attribute table is the        *)
(* output of read_attributes_v3 or of read_attributes_v2 on a stream of    *)
(* at most MaxAttrs entries.                                               *)
(***************************************************************************)
TypeAndLengths ==
    {256, 260, 63}

AttrStreamsV3 ==
    UNION { [1..n -> [ name_hash_table_index : {0, 65536},
                       type_and_length : TypeAndLengths,
                       next_attribute_index : -1..MaxAttrs,
                       offset : {0} ]] : n \in 0..MaxAttrs }

AttrStreamsV2 ==
    UNION { [1..n -> [ name_hash_table_index : {0, 65536},
                       type_and_length : TypeAndLengths,
                       node_index : -1..1 ]] : n \in 0..MaxAttrs }

AttrTables ==
    { ReadAttributesV3(s) : s \in AttrStreamsV3 } \cup
    { ReadAttributesV2(s).attributes : s \in AttrStreamsV2 }

TreeIdle ==
    /\ node_infos = <<>>
    /\ node_instances = <<>>
    /\ regions = [k \in {} |-> 0]
    /\ rpc = "idle"

InitNode ==
    /\ names = << <<"A", "B">> >>
    /\ attributes \in AttrTables
    /\ values_len \in {0, 4}
    /\ long_nodes = TRUE
    /\ TreeIdle
    /\ \E e \in [ name_hash_table_index : {0, 65536},
                  parent_index : {-1},
                  first_attribute_index : -1..MaxAttrs ] :
           defn = NodeInfoFromV3(e)
    /\ wpc = "start"
    /\ cur = 0
    /\ hops = 0
    /\ acc = {}
    /\ werr = ""
    /\ HeadIdle
    /\ PkgIdle
    /\ AttrIdle
    /\ ValueIdle
    /\ SectIdle

\* Lines 180-196: the node's name is not in the pool.
NodeNameMissing ==
    /\ wpc = "start"
    /\ ~NodeName(names, defn).some
    /\ wpc' = "err"
    /\ werr' = "BadNameRef"
    /\ UNCHANGED <<defn, cur, hops, acc>>
    /\ UNCHANGED notNode

\* Lines 198-205: no first attribute, the node has no attribute map.
NoAttributes ==
    /\ wpc = "start"
    /\ NodeName(names, defn).some
    /\ ~defn.first_attribute_index.some
    /\ wpc' = "ok"
    /\ UNCHANGED <<defn, cur, hops, acc, werr>>
    /\ UNCHANGED notNode

\* Lines 207-211: first_attribute_index is outside the table.
FirstAttributeMissing ==
    /\ wpc = "start"
    /\ NodeName(names, defn).some
    /\ defn.first_attribute_index.some
    /\ ~InRange(attributes, defn.first_attribute_index.v)
    /\ wpc' = "err"
    /\ werr' = "BadAttributeRef"
    /\ UNCHANGED <<defn, cur, hops, acc>>
    /\ UNCHANGED notNode

EnterLoop ==
    /\ wpc = "start"
    /\ NodeName(names, defn).some
    /\ defn.first_attribute_index.some
    /\ InRange(attributes, defn.first_attribute_index.v)
    /\ wpc' = "walk"
    /\ cur' = defn.first_attribute_index.v
    /\ UNCHANGED <<defn, hops, acc, werr>>
    /\ UNCHANGED notNode

\* An iteration that returns an error (lines 226, 228-244, 249-253).
HopFails ==
    /\ wpc = "walk"
    /\ WalkHop(names, attributes, values_len, cur, acc).status = "err"
    /\ wpc' = "err"
    /\ werr' = WalkHop(names, attributes, values_len, cur, acc).err
    /\ UNCHANGED <<defn, cur, hops, acc>>
    /\ UNCHANGED notNode

\* An iteration that finds no next index and breaks (line 255).
HopBreaks ==
    /\ wpc = "walk"
    /\ WalkHop(names, attributes, values_len, cur, acc).status = "done"
    /\ wpc' = "ok"
    /\ acc' = WalkHop(names, attributes, values_len, cur, acc).map
    /\ UNCHANGED <<defn, cur, hops, werr>>
    /\ UNCHANGED notNode

\* An iteration that follows next_attribute_index (lines 248-253).  The
\* hop counter is capped one past the largest table.
HopFollows ==
    /\ wpc = "walk"
    /\ hops <= MaxAttrs
    /\ WalkHop(names, attributes, values_len, cur, acc).status = "next"
    /\ cur' = WalkHop(names, attributes, values_len, cur, acc).idx
    /\ acc' = WalkHop(names, attributes, values_len, cur, acc).map
    /\ hops' = hops + 1
    /\ UNCHANGED <<defn, wpc, werr>>
    /\ UNCHANGED notNode

NextNode ==
    \/ NodeNameMissing
    \/ NoAttributes
    \/ FirstAttributeMissing
    \/ EnterLoop
    \/ HopFails
    \/ HopBreaks
    \/ HopFollows

SpecNode ==
    InitNode /\ [][NextNode]_vars

(***************************************************************************)
(* C4: the walk of a node's attribute chain follows at most                *)
(* total_attributes next_attribute_index links before it ends.             *)
(***************************************************************************)
C4_WalkBounded ==
    hops <= Len(attributes)

\* The pool has no bucket name_index or the bucket no slot name_offset.
NameMissing(name_index, name_offset) ==
    ~(/\ name_index >= 0 /\ name_index < Len(names)
      /\ name_offset >= 0 /\ name_offset < Len(names[name_index + 1]))

EngineLimbs ==
    {0, 26} \X {0, 16384, 32768} \X {0, 32769} \X {0, 512, 16896, 33280}

LsfFiles ==
    [ len : {4, 10, 20, 64},
      magic_ok : BOOLEAN,
      version : 0..8,
      engine : EngineLimbs ]

EngineSize(f) ==
    IF f.version >= VerBG3ExtendedHeader THEN 8 ELSE 4

MetadataSize(f) ==
    IF f.version < VerBG3AdditionalBlob THEN 40 ELSE 48

\* The value read_headers assigns to self.game_version (lines 330-352).
GameVersionOf(f) ==
    IF f.version >= VerBG3ExtendedHeader
    THEN LET game_version_ == PackedVersionFromI64(f.engine)
         IN  IF game_version_.major = 0
             THEN [major |-> 4, minor |-> 0, revision |-> 9, build |-> 0]
             ELSE game_version_
    ELSE PackedVersionFromI32(<<f.engine[1], f.engine[2]>>)

InitHeader ==
    /\ names = <<>>
    /\ attributes = <<>>
    /\ values_len = 0
    /\ long_nodes = FALSE
    /\ TreeIdle
    /\ WalkIdle
    /\ lsf_file \in LsfFiles
    /\ version = None
    /\ game_version = PackedVersionDefault
    /\ res_meta = ResourceDefaultMetadata
    /\ hpc = "start"
    /\ herr = ""
    /\ sections = FALSE
    /\ PkgIdle
    /\ AttrIdle
    /\ ValueIdle
    /\ SectIdle

\* Lines 313-314: fewer than 8 bytes of magic.
MagicShort ==
    /\ hpc = "start"
    /\ lsf_file.len < 8
    /\ hpc' = "err"
    /\ herr' = "ShortRead"
    /\ UNCHANGED sections
    /\ UNCHANGED <<lsf_file, version, game_version, res_meta>>
    /\ UNCHANGED notHead

\* Lines 315-322: the signature is not LSOF.
BadSignature ==
    /\ hpc = "start"
    /\ lsf_file.len >= 8
    /\ LsfGate(lsf_file.magic_ok, lsf_file.version) = "NotLSF"
    /\ hpc' = "err"
    /\ herr' = "NotLSF"
    /\ UNCHANGED sections
    /\ UNCHANGED <<lsf_file, version, game_version, res_meta>>
    /\ UNCHANGED notHead

\* Lines 324-328: the version is none of 1..7; self.version is assigned.
BadVersion ==
    /\ hpc = "start"
    /\ lsf_file.len >= 8
    /\ LsfGate(lsf_file.magic_ok, lsf_file.version) = "UnsupportedLSFVersion"
    /\ version' = LSFVersionGet(lsf_file.version)
    /\ hpc' = "err"
    /\ herr' = "UnsupportedLSFVersion"
    /\ UNCHANGED sections
    /\ UNCHANGED <<lsf_file, game_version, res_meta>>
    /\ UNCHANGED notHead

\* Lines 331-333, 347-349: the engine version cannot be read.
EngineShort ==
    /\ hpc = "start"
    /\ lsf_file.len >= 8
    /\ LsfGate(lsf_file.magic_ok, lsf_file.version) = "ok"
    /\ lsf_file.len < 8 + EngineSize(lsf_file)
    /\ version' = LSFVersionGet(lsf_file.version)
    /\ hpc' = "err"
    /\ herr' = "ShortRead"
    /\ UNCHANGED sections
    /\ UNCHANGED <<lsf_file, game_version, res_meta>>
    /\ UNCHANGED notHead

\* Lines 354-361: the metadata block cannot be read; self.game_version
\* has been assigned.
MetadataShort ==
    /\ hpc = "start"
    /\ lsf_file.len >= 8
    /\ LsfGate(lsf_file.magic_ok, lsf_file.version) = "ok"
    /\ lsf_file.len >= 8 + EngineSize(lsf_file)
    /\ lsf_file.len < 8 + EngineSize(lsf_file) + MetadataSize(lsf_file)
    /\ version' = LSFVersionGet(lsf_file.version)
    /\ game_version' = GameVersionOf(lsf_file)
    /\ hpc' = "err"
    /\ herr' = "ShortRead"
    /\ UNCHANGED sections
    /\ UNCHANGED <<lsf_file, res_meta>>
    /\ UNCHANGED notHead

\* read_headers returns Ok(()).
HeadersRead ==
    /\ hpc = "start"
    /\ lsf_file.len >= 8
    /\ LsfGate(lsf_file.magic_ok, lsf_file.version) = "ok"
    /\ lsf_file.len >= 8 + EngineSize(lsf_file) + MetadataSize(lsf_file)
    /\ version' = LSFVersionGet(lsf_file.version)
    /\ game_version' = GameVersionOf(lsf_file)
    /\ hpc' = "headers"
    /\ UNCHANGED <<herr, sections>>
    /\ UNCHANGED <<lsf_file, res_meta>>
    /\ UNCHANGED notHead

\* A section or read_regions returns an error (lines 38-106).
BodyFails ==
    /\ hpc = "headers"
    /\ hpc' = "err"
    /\ herr' = "Section"
    /\ sections' = TRUE
    /\ UNCHANGED <<lsf_file, version, game_version, res_meta>>
    /\ UNCHANGED notHead

\* read_regions returns a Resource, whose metadata is stamped from
\* self.game_version (lines 106-112).
ResourceStamped ==
    /\ hpc = "headers"
    /\ res_meta' = [ major_version |-> game_version.major,
                     minor_version |-> game_version.minor,
                     revision |-> game_version.revision,
                     build_number |-> game_version.build ]
    /\ hpc' = "ok"
    /\ sections' = TRUE
    /\ UNCHANGED herr
    /\ UNCHANGED <<lsf_file, version, game_version>>
    /\ UNCHANGED notHead

NextHeader ==
    \/ MagicShort
    \/ BadSignature
    \/ BadVersion
    \/ EngineShort
    \/ MetadataShort
    \/ HeadersRead
    \/ BodyFails
    \/ ResourceStamped

SpecHeader ==
    InitHeader /\ [][NextHeader]_vars

\* The engine version as unpacked from the header, before any workaround.
UnpackedEngineVersion(f) ==
    IF f.version >= VerBG3ExtendedHeader
    THEN PackedVersionFromI64(f.engine)
    ELSE PackedVersionFromI32(<<f.engine[1], f.engine[2]>>)

(***************************************************************************)
(* C5: a returned Resource whose header unpacks to engine major 0 carries  *)
(* the quadruple (4, 0, 9, 0), whatever the LSF version.                   *)
(***************************************************************************)
C5_MajorZeroDefault ==
    (hpc = "ok" /\ UnpackedEngineVersion(lsf_file).major = 0) =>
        res_meta = [ major_version |-> 4, minor_version |-> 0,
                     revision |-> 9, build_number |-> 0 ]

\* Bit k of the packed engine version, and the number its bits lo..hi
\* spell.
BitOf(packed, k) ==
    (packed[(k \div 16) + 1] \div (2 ^ (k % 16))) % 2

RECURSIVE BitsOf(_, _, _)
BitsOf(packed, lo, hi) ==
    IF hi < lo THEN 0 ELSE BitOf(packed, lo) + 2 * BitsOf(packed, lo + 1, hi)

(***************************************************************************)
(* C27 as stated: the engine version read_headers keeps is, from the i64   *)
(* form (LSF version >= 5, major not 0), major = bits 55..62, minor = bits *)
(* 47..54, revision = bits 31..46, build = bits 0..30, and from the i32    *)
(* form major = bits 28..31, minor = bits 24..27, revision = bits 16..23,  *)
(* build = bits 0..15.                                                     *)
(***************************************************************************)
C27_MajorOfEightBits ==
    hpc \in {"headers", "ok"} =>
        IF lsf_file.version >= 5
        THEN BitsOf(lsf_file.engine, 55, 62) # 0 =>
                 game_version = [ major |-> BitsOf(lsf_file.engine, 55, 62),
                                  minor |-> BitsOf(lsf_file.engine, 47, 54),
                                  revision |-> BitsOf(lsf_file.engine, 31, 46),
                                  build |-> BitsOf(lsf_file.engine, 0, 30) ]
        ELSE game_version = [ major |-> BitsOf(lsf_file.engine, 28, 31),
                              minor |-> BitsOf(lsf_file.engine, 24, 27),
                              revision |-> BitsOf(lsf_file.engine, 16, 23),
                              build |-> BitsOf(lsf_file.engine, 0, 15) ]

(***************************************************************************)
(* C27: the same with the major of the i64 form being bits 55..61: the     *)
(* mask of the major is 0x7f, so bit 62 and the sign bit are in no field.  *)
(***************************************************************************)
C27_BitFields ==
    hpc \in {"headers", "ok"} =>
        IF lsf_file.version >= 5
        THEN BitsOf(lsf_file.engine, 55, 61) # 0 =>
                 game_version = [ major |-> BitsOf(lsf_file.engine, 55, 61),
                                  minor |-> BitsOf(lsf_file.engine, 47, 54),
                                  revision |-> BitsOf(lsf_file.engine, 31, 46),
                                  build |-> BitsOf(lsf_file.engine, 0, 30) ]
        ELSE game_version = [ major |-> BitsOf(lsf_file.engine, 28, 31),
                              minor |-> BitsOf(lsf_file.engine, 24, 27),
                              revision |-> BitsOf(lsf_file.engine, 16, 23),
                              build |-> BitsOf(lsf_file.engine, 0, 15) ]

\* A negative i64 (bit 63 set) with bits 57, 47, 32 and 31 set: 4.1.3.26.
C27_Witness ==
    /\ hpc = "ok"
    /\ lsf_file.version = 5
    /\ lsf_file.engine = <<26, 32768, 32769, 33280>>
    /\ game_version = [major |-> 4, minor |-> 1, revision |-> 3, build |-> 26]

(***************************************************************************)
(* C12 as stated: a header whose first 4 bytes are not "LSOF" fails with   *)
(* NotLSF, and one whose signature matches and whose version is outside    *)
(* 1..7 fails with UnsupportedLSFVersion; no section is read and no        *)
(* Resource is returned.                                                   *)
(***************************************************************************)
C12_SignatureOfFourBytes ==
    hpc \in {"ok", "err"} =>
        /\ (lsf_file.len >= 4 /\ ~lsf_file.magic_ok) =>
               hpc = "err" /\ herr = "NotLSF" /\ ~sections
        /\ (lsf_file.len >= 8 /\ lsf_file.magic_ok
                /\ lsf_file.version \notin 1..7) =>
               hpc = "err" /\ herr = "UnsupportedLSFVersion" /\ ~sections

(***************************************************************************)
(* C12 amended: once the 8 bytes of signature and version are present, a   *)
(* signature other than "LSOF" fails with NotLSF whatever the version,     *)
(* and a matching signature with a version outside 1..7 fails with         *)
(* UnsupportedLSFVersion; no section is read and no Resource is returned.  *)
(***************************************************************************)
C12_SignatureThenVersion ==
    hpc \in {"ok", "err"} =>
        /\ (lsf_file.len >= 8 /\ ~lsf_file.magic_ok) =>
               hpc = "err" /\ herr = "NotLSF" /\ ~sections
        /\ (lsf_file.len >= 8 /\ lsf_file.magic_ok
                /\ lsf_file.version \notin 1..7) =>
               hpc = "err" /\ herr = "UnsupportedLSFVersion" /\ ~sections

\* Signature and version are both wrong: the signature decides.
C12_Witness ==
    /\ hpc = "err"
    /\ lsf_file.len >= 8
    /\ ~lsf_file.magic_ok
    /\ lsf_file.version = 8
    /\ herr = "NotLSF"

(***************************************************************************)
(* SpecPackage: a PackageReader over one archive and the operations        *)
(* called on it, one action per operation.                                 *)
(***************************************************************************)
EntryFlags ==
    {2, 115, 4, 128}

FileEntries ==
    { [ name |-> "f", offset_in_file_1 |-> sh[1], offset_in_file_2 |-> sh[2],
        archive_part |-> 0, flags |-> sh[5],
        size_on_disk |-> sh[3], uncompressed_size |-> sh[4] ] :
          sh \in { <<40, 0, 4, 8, 2>>, <<40, 0, 4, 8, 115>>,
                   <<40, 0, 4, 8, 4>>, <<40, 0, 4, 8, 128>>,
                   <<U32Max, 1, MaxEntrySize + 1, 0, 2>> } }

FileLists ==
    UNION { [1..n -> FileEntries] : n \in 0..MaxFiles }

\* Archives that differ in their header.
HeaderArchives ==
    [ len : {2, 6, 20, 44, 52, 80},
      sig_ok : BOOLEAN,
      version : {17, V18},
      file_list_offset : {40, 100},
      flags : {0}, priority : {0},
      num_files : {1},
      compressed_size : {4},
      list_ok : {TRUE},
      list : { <<e>> : e \in { x \in FileEntries :
                                  x.flags = 2 /\ x.offset_in_file_2 = 0 } },
      data_dec : {4} ]

\* Archives that differ in their file table: the table is read in full.
ListArchives ==
    [ len : {80},
      sig_ok : {TRUE},
      version : {V18},
      file_list_offset : {40},
      flags : {0}, priority : {0},
      num_files : 0..MaxFiles,
      compressed_size : {16},
      list_ok : {TRUE},
      list : FileLists,
      data_dec : {4} ]
    \cup
    [ len : {80},
      sig_ok : {TRUE},
      version : {V18},
      file_list_offset : {40},
      flags : {0}, priority : {0},
      num_files : 0..MaxFiles,
      compressed_size : {0, 16},
      list_ok : {FALSE},
      list : {<<>>},
      data_dec : {4} ]

\* Archives that end inside or right before the bytes of the file table.
ShortListArchives ==
    [ len : {48, 52},
      sig_ok : {TRUE},
      version : {V18},
      file_list_offset : {40},
      flags : {0}, priority : {0},
      num_files : 0..MaxFiles,
      compressed_size : {0, 4, 16},
      list_ok : {TRUE},
      list : { l \in FileLists : Len(l) <= 1 },
      data_dec : {4} ]

\* Archives that differ in what the data of an entry decodes to.
DataArchives ==
    [ len : {80},
      sig_ok : {TRUE},
      version : {V18},
      file_list_offset : {40},
      flags : {0}, priority : {0},
      num_files : {0},
      compressed_size : {4},
      list_ok : {TRUE},
      list : {<<>>},
      data_dec : {-1, 4, 8} ]

Archives ==
    HeaderArchives \cup ListArchives \cup ShortListArchives \cup DataArchives

\* The entries a caller passes to decompress_file and extract_file.
PfiSamples ==
    { [ offset_in_file |-> sh[1], size_on_disk |-> sh[2],
        uncompressed_size |-> sh[3], archive_part |-> 0, flags |-> sh[4],
        crc |-> 0, name |-> "f" ] :
          sh \in { <<40, 4, 4, 0>>, <<40, 4, 8, 0>>, <<40, 4, 8, 1>>,
                   <<40, 4, 8, 2>>, <<40, 4, 8, 3>>, <<40, 4, 8, 4>>,
                   <<40, MaxEntrySize + 1, 4, 2>>,
                   <<U32Max + 1 + 40, 4, 8, 2>> } }

InitPackage ==
    /\ names = <<>>
    /\ attributes = <<>>
    /\ values_len = 0
    /\ long_nodes = FALSE
    /\ TreeIdle
    /\ WalkIdle
    /\ HeadIdle
    /\ AttrIdle
    /\ ValueIdle
    /\ SectIdle
    /\ archive \in Archives
    /\ pos = 0
    /\ ops = 0
    /\ last = NoResult

Read ==
    /\ ops < MaxOps
    /\ \E o \in PackageRead(archive, pos) :
           /\ last' = o.last
           /\ pos' = o.pos
    /\ ops' = ops + 1
    /\ UNCHANGED archive
    /\ UNCHANGED notPkg

DecompressEntry ==
    /\ ops < MaxOps
    /\ \E pfi \in PfiSamples :
         \E o \in DecompressFile(archive, pos, pfi, "decompress_file") :
           /\ last' = o.last
           /\ pos' = o.pos
    /\ ops' = ops + 1
    /\ UNCHANGED archive
    /\ UNCHANGED notPkg

Extract ==
    /\ ops < MaxOps
    /\ \E pfi \in PfiSamples, io \in {"ok", "no_dir", "no_file"} :
         \E o \in ExtractFile(archive, pos, pfi, io) :
           /\ last' = o.last
           /\ pos' = o.pos
    /\ ops' = ops + 1
    /\ UNCHANGED archive
    /\ UNCHANGED notPkg

NextPackage ==
    \/ Read
    \/ DecompressEntry
    \/ Extract

SpecPackage ==
    InitPackage /\ [][NextPackage]_vars

\* The last operation was read() on a freshly opened reader.
FreshRead ==
    ops = 1 /\ last.op = "read"

(***************************************************************************)
(* C6: read on a fresh reader fails with NotLSPK when the first 4 bytes    *)
(* are not "LSPK" (whatever the version), and with                         *)
(* UnsupportedPackageVersion when they are and the next u32 is not 18; in  *)
(* both cases no file table is read and no Package is returned.            *)
(***************************************************************************)
C6_SignatureThenVersion ==
    FreshRead =>
        /\ (archive.len >= 4 /\ ~archive.sig_ok) =>
               /\ last.status = "err"
               /\ last.err = "NotLSPK"
               /\ last.stage = "signature"
               /\ pos = 4
        /\ (archive.len >= 8 /\ archive.sig_ok /\ archive.version # 18) =>
               /\ last.status = "err"
               /\ last.err = "UnsupportedPackageVersion"
               /\ last.stage = "version"
               /\ pos = 8

\* Both the signature and the version are wrong: the signature decides.
C6_Witness ==
    /\ FreshRead
    /\ archive.len >= 8
    /\ ~archive.sig_ok
    /\ archive.version # 18
    /\ last.err = "NotLSPK"

(***************************************************************************)
(* C7: when the file table decodes to entries of which one has a           *)
(* compression nibble above 3 or a bit outside 0x7F, read fails with       *)
(* UnsupportedEntryFlags; every entry of a returned Package has its        *)
(* nibble in 0..3 and bit 7 clear.                                         *)
(***************************************************************************)
C7_FlagsAllOrNothing ==
    last.op = "read" =>
        /\ (last.stage = "entries" /\
            \E i \in 1..Len(archive.list) :
                archive.list[i].flags % 16 > 3 \/ archive.list[i].flags >= 128) =>
               /\ last.status = "err"
               /\ last.err = "UnsupportedEntryFlags"
               /\ last.files = <<>>
        /\ last.status = "ok" =>
               \A i \in 1..Len(last.files) :
                   /\ last.files[i].flags % 16 \in 0..3
                   /\ (last.files[i].flags \div 128) % 2 = 0

\* A table whose first entry is supported and whose second has bit 7 set.
C7_Witness ==
    /\ last.op = "read"
    /\ last.err = "UnsupportedEntryFlags"
    /\ Len(archive.list) = 2
    /\ archive.list[1].flags = 115
    /\ archive.list[2].flags = 128

(***************************************************************************)
(* C8: the bytes decompress_file returns have the length the entry         *)
(* declares as its uncompressed size.                                      *)
(***************************************************************************)
C8_OutputLength ==
    (last.op = "decompress_file" /\ last.status = "ok") =>
        last.len = last.pfi.uncompressed_size

(***************************************************************************)
(* C9: decompress_file of an entry whose size_on_disk exceeds the limit    *)
(* fails with EntryTooLarge before anything is read.                       *)
(***************************************************************************)
C9_EntryTooLarge ==
    (last.op = "decompress_file" /\ last.pfi.size_on_disk > MaxEntrySize) =>
        /\ last.status = "err"
        /\ last.err = "EntryTooLarge"
        /\ pos = last.start

(***************************************************************************)
(* C10: every entry of a returned Package lies inside the archive and,     *)
(* when its method is not 0, is not larger on disk than uncompressed.      *)
(***************************************************************************)
C10_EntryInvariants ==
    (last.op = "read" /\ last.status = "ok") =>
        \A i \in 1..Len(last.files) :
            /\ last.files[i].offset_in_file + last.files[i].size_on_disk
                   <= archive.len
            /\ last.files[i].flags % 16 # 0 =>
                   last.files[i].uncompressed_size >= last.files[i].size_on_disk

(***************************************************************************)
(* C11: a read that finds fewer than compressed_size bytes after the two   *)
(* u32 of the file-table header fails with a short-read error, and the     *)
(* partly filled buffer is never handed to the LZ4 decoder.                *)
(***************************************************************************)
C11_ShortFileTable ==
    ( /\ FreshRead
      /\ archive.sig_ok
      /\ archive.version = V18
      /\ archive.len >= 40
      /\ archive.len >= archive.file_list_offset + 8
      /\ archive.len - (archive.file_list_offset + 8) < archive.compressed_size ) =>
        /\ last.status = "err"
        /\ last.err = "ShortRead"
        /\ last.stage # "lz4_partial"

(***************************************************************************)
(* C13: when read_node succeeds, every attribute of the attribute table    *)
(* lies inside the values blob: data_offset + length <= values.len().      *)
(***************************************************************************)
C13_AttributesInsideValues ==
    wpc = "ok" =>
        \A i \in 1..Len(attributes) :
            attributes[i].data_offset + attributes[i].length <= values_len

(***************************************************************************)
(* C28: whatever the reader did before (and so wherever its cursor is),    *)
(* decompress_file(pfi) returns what it returns with the cursor at 0: a    *)
(* result the archive bytes and pfi determine.                             *)
(***************************************************************************)
C28_DecompressIgnoresCursor ==
    last.op = "decompress_file" =>
        [last EXCEPT !.start = 0]
            \in { o.last : o \in DecompressFile(archive, 0, last.pfi,
                                                 "decompress_file") }

\* An entry decompressed by a reader whose cursor an earlier operation
\* had moved.
C28_Witness ==
    /\ ops = 2
    /\ last.op = "decompress_file"
    /\ last.start > 0
    /\ last.start # last.pfi.offset_in_file
    /\ last.status = "ok"
    /\ last.len > 0

(***************************************************************************)
(* C29: read() after any earlier operations on the reader returns what     *)
(* read() returns on a freshly opened reader over the same bytes.          *)
(***************************************************************************)
C29_ReadFromStart ==
    last.op = "read" =>
        [last EXCEPT !.start = 0]
            \in { o.last : o \in PackageRead(archive, 0) }

(***************************************************************************)
(* SpecAttrs: read_attributes_v2 on an attribute section, one action per   *)
(* iteration of its loop and per way out of it.  The section is            *)
(* [entries, left_over]: the LSFAttributeEntryV2 records it holds and the  *)
(* bytes after the last whole record.                                      *)
(***************************************************************************)
AttrEntriesV2 ==
    [ name_hash_table_index : {0},
      type_and_length : {260, 128},
      node_index : -2..1 ]

AttrSections ==
    [ entries : UNION { [1..n -> AttrEntriesV2] : n \in 0..MaxStream },
      left_over : {0, 5} ]

InitAttrs ==
    /\ names = <<>>
    /\ attributes = <<>>
    /\ values_len = 0
    /\ long_nodes = FALSE
    /\ TreeIdle
    /\ WalkIdle
    /\ HeadIdle
    /\ PkgIdle
    /\ ValueIdle
    /\ SectIdle
    /\ attr_stream \in AttrSections
    /\ attr_st = V2LoopStart
    /\ apc = "loop"

\* Lines 466-499: one iteration.
V2Iterate ==
    /\ apc = "loop"
    /\ attr_st.index < Len(attr_stream.entries)
    /\ LET st == ReadAttributesV2Step(attr_st,
                                      attr_stream.entries[attr_st.index + 1])
       IN  /\ ~st.aborted
           /\ attr_st' = st
    /\ UNCHANGED <<attr_stream, apc, attributes>>
    /\ UNCHANGED notAttr

\* Lines 490-491: node_index + 1 is negative, and the padding that
\* `node_index as usize` asks for is beyond any allocation.
V2Aborts ==
    /\ apc = "loop"
    /\ attr_st.index < Len(attr_stream.entries)
    /\ ReadAttributesV2Step(attr_st,
                            attr_stream.entries[attr_st.index + 1]).aborted
    /\ apc' = "abort"
    /\ UNCHANGED <<attr_stream, attr_st, attributes>>
    /\ UNCHANGED notAttr

\* Lines 466-468: the bytes left are no whole entry.
V2Truncated ==
    /\ apc = "loop"
    /\ attr_st.index = Len(attr_stream.entries)
    /\ attr_stream.left_over > 0
    /\ apc' = "err"
    /\ UNCHANGED <<attr_stream, attr_st, attributes>>
    /\ UNCHANGED notAttr

\* Line 501, and the assignment to self.attributes in read.
V2Returns ==
    /\ apc = "loop"
    /\ attr_st.index = Len(attr_stream.entries)
    /\ attr_stream.left_over = 0
    /\ apc' = "ok"
    /\ attributes' = attr_st.attributes
    /\ UNCHANGED <<attr_stream, attr_st>>
    /\ UNCHANGED notAttr

NextAttrs ==
    \/ V2Iterate
    \/ V2Aborts
    \/ V2Truncated
    \/ V2Returns

SpecAttrs ==
    InitAttrs /\ [][NextAttrs]_vars

\* The stream indices after i of the attributes of the node of entry i.
LaterOfNode(i) ==
    { j \in (i + 1)..(Len(attr_stream.entries) - 1) :
          attr_stream.entries[j + 1].node_index
              = attr_stream.entries[i + 1].node_index }

RECURSIVE SumOfLengths(_)
SumOfLengths(n) ==
    IF n = 0 THEN 0
    ELSE SumOfLengths(n - 1)
             + attr_stream.entries[n].type_and_length \div 64

(***************************************************************************)
(* C19: in the table read_attributes_v2 returns, the next_attribute_index  *)
(* of an attribute is the stream index of the next later attribute of the  *)
(* same node_index, and absent when there is none.  (A table is returned   *)
(* only for streams whose node_index are all >= -1.)                       *)
(***************************************************************************)
C19_ChainsInStreamOrder ==
    apc = "ok" =>
        /\ Len(attributes) = Len(attr_stream.entries)
        /\ \A i \in 0..(Len(attributes) - 1) :
               /\ attr_stream.entries[i + 1].node_index >= -1
               /\ IF LaterOfNode(i) = {}
                  THEN ~attributes[i + 1].next_attribute_index.some
                  ELSE /\ attributes[i + 1].next_attribute_index.some
                       /\ attributes[i + 1].next_attribute_index.v \in LaterOfNode(i)
                       /\ \A j \in LaterOfNode(i) :
                              attributes[i + 1].next_attribute_index.v <= j

\* Three attributes of node 0: 0 -> 1 -> 2 -> absent.
C19_Witness ==
    /\ apc = "ok"
    /\ Len(attributes) = 3
    /\ \A i \in 1..3 : attr_stream.entries[i].node_index = 0
    /\ attributes[1].next_attribute_index = Some(1)
    /\ attributes[2].next_attribute_index = Some(2)
    /\ ~attributes[3].next_attribute_index.some

(***************************************************************************)
(* C20: in the table read_attributes_v2 returns, the attribute at stream   *)
(* index 0 has data_offset 0 and the one at index i the sum of the length  *)
(* fields of the entries 0..i-1, whatever their node_index (the sums of    *)
(* the model stay far below 2^32).                                         *)
(***************************************************************************)
C20_CumulativeOffsets ==
    apc = "ok" =>
        \A i \in 0..(Len(attributes) - 1) :
            attributes[i + 1].data_offset = SumOfLengths(i)

\* Lengths 4, 2, 4 on three different nodes: offsets 0, 4, 6.
C20_Witness ==
    /\ apc = "ok"
    /\ Len(attributes) = 3
    /\ attr_stream.entries[1].node_index = 0
    /\ attr_stream.entries[2].node_index = -1
    /\ attr_stream.entries[3].node_index = 1
    /\ attributes[1].data_offset = 0
    /\ attributes[2].data_offset = 4
    /\ attributes[3].data_offset = 6

(***************************************************************************)
(* C21: read_attributes_v2 neither fails nor aborts because of a           *)
(* node_index: the loop never stops at an entry for its node_index, and    *)
(* when the stream is used up every entry has been emitted with its index. *)
(***************************************************************************)
C21_NodeIndexAbsorbed ==
    /\ apc # "abort"
    /\ apc = "ok" => Len(attributes) = Len(attr_stream.entries)

(***************************************************************************)
(* C30: in the table read_attributes_v2 returns, a present                 *)
(* next_attribute_index is greater than the index of its attribute and     *)
(* less than the number of attributes, and no index is the                 *)
(* next_attribute_index of two attributes.                                 *)
(***************************************************************************)
C30_ChainsForwardAndDisjoint ==
    apc = "ok" =>
        /\ \A i \in 0..(Len(attributes) - 1) :
               attributes[i + 1].next_attribute_index.some =>
                   /\ attributes[i + 1].next_attribute_index.v > i
                   /\ attributes[i + 1].next_attribute_index.v < Len(attributes)
        /\ \A i, j \in 0..(Len(attributes) - 1) :
               ( /\ i # j
                 /\ attributes[i + 1].next_attribute_index.some
                 /\ attributes[j + 1].next_attribute_index.some ) =>
                   attributes[i + 1].next_attribute_index.v
                       # attributes[j + 1].next_attribute_index.v

\* Two nodes interleaved: 0 -> 2 on node 0, 1 absent on node 1.
C30_Witness ==
    /\ apc = "ok"
    /\ Len(attributes) = 3
    /\ attr_stream.entries[1].node_index = 0
    /\ attr_stream.entries[2].node_index = 1
    /\ attr_stream.entries[3].node_index = 0
    /\ attributes[1].next_attribute_index = Some(2)
    /\ ~attributes[2].next_attribute_index.some
    /\ ~attributes[3].next_attribute_index.some

(***************************************************************************)
(* SpecSections: LSFReader::read after read_headers, one action per        *)
(* section and one for a section that cannot be read.  metadata.sizes      *)
(* holds [size_on_disk, uncompressed_size] of the strings, nodes,          *)
(* attributes and values sections in this order; lsf_reader counts from    *)
(* the end of the headers.  The parsers of the section contents            *)
(* (read_names, read_nodes, read_attributes_*, read_regions) succeed or    *)
(* fail by the bytes, which the model leaves open.                         *)
(***************************************************************************)
VerChunkedCompress ==
    2

VerExtendedNodes ==
    3

\* LSFReader::decompress at stream position p of a stream of `len` bytes,
\* the bytes read decoding to `dec` bytes: status, the bytes consumed,
\* whether bin_utils::decompress was called and with which `chunked`.
LsfDecompress(p, len, size_on_disk, uncompressed_size, allow_chunked, ver, flags, dec) ==
    LET chunked == allow_chunked /\ ver.some /\ ver.v >= VerChunkedCompress
        is_compressed == CompressionMethodGet(flags) \notin {-1, 0}
        compressed_size == IF is_compressed THEN size_on_disk
                           ELSE uncompressed_size
        out == Decompress(compressed_size, dec, uncompressed_size, flags, chunked)
    IN  IF size_on_disk = 0 /\ uncompressed_size # 0
        THEN IF p + uncompressed_size <= len
             THEN [ status |-> "ok", consumed |-> uncompressed_size,
                    codec |-> FALSE, chunked |-> FALSE ]
             ELSE [ status |-> "short", consumed |-> 0,
                    codec |-> FALSE, chunked |-> FALSE ]
        ELSE IF size_on_disk = 0 /\ uncompressed_size = 0
        THEN [ status |-> "ok", consumed |-> 0, codec |-> FALSE, chunked |-> FALSE ]
        ELSE IF p + compressed_size > len
        THEN [ status |-> "short", consumed |-> 0, codec |-> FALSE, chunked |-> FALSE ]
        ELSE [ status |-> IF out.ok THEN "ok" ELSE "codec",
               consumed |-> compressed_size, codec |-> TRUE, chunked |-> chunked ]

\* Lines 59-63 of read: the dialect of the node entries.
LongNodes(ver, has_sibling_data) ==
    ver.some /\ ver.v >= VerExtendedNodes /\ has_sibling_data = 1

\* Lines 83-87 of read: the dialect of the attribute entries.
HasSiblingDataNonzero(ver, has_sibling_data) ==
    ver.some /\ ver.v >= VerExtendedNodes /\ has_sibling_data # 0

HasSiblingData(ver, has_sibling_data) ==
    ver.some /\ ver.v >= VerExtendedNodes /\ has_sibling_data = 1

\* The call of self.decompress for section k (0-based), as read makes it.
SectionCall(k, allow_chunked, dec) ==
    LsfDecompress(lsf_reader.pos, lsf_reader.len,
                  metadata.sizes[k + 1].size_on_disk,
                  metadata.sizes[k + 1].uncompressed_size,
                  allow_chunked, version, metadata.compression_flags, dec)

\* What a call that read leaves behind: the cursor and the record of it.
SectionConsumed(name, call, dialect) ==
    /\ lsf_reader' = [lsf_reader EXCEPT !.pos = @ + call.consumed]
    /\ read_log' = Append(read_log,
                          [ section |-> name, start |-> lsf_reader.pos,
                            consumed |-> call.consumed, codec |-> call.codec,
                            chunked |-> call.chunked, status |-> call.status,
                            dialect |-> dialect ])

InitSections ==
    /\ names = <<>>
    /\ attributes = <<>>
    /\ values_len = 0
    /\ long_nodes = FALSE
    /\ TreeIdle
    /\ WalkIdle
    /\ lsf_file = [len |-> 0, magic_ok |-> FALSE, version |-> 0,
                   engine |-> <<0, 0, 0, 0>>]
    /\ version \in {Some(1), Some(VerChunkedCompress), Some(VerExtendedNodes)}
    /\ game_version = PackedVersionDefault
    /\ res_meta = ResourceDefaultMetadata
    /\ hpc = "idle"
    /\ herr = ""
    /\ sections = FALSE
    /\ PkgIdle
    /\ AttrIdle
    /\ ValueIdle
    /\ metadata \in
           [ sizes : [ 1..4 -> [ size_on_disk : {0, MaxSect - 1},
                                 uncompressed_size : {0, MaxSect} ] ],
             compression_flags : {0, 1, 2, 5},
             has_sibling_data : {0, 1, 2} ]
    /\ lsf_reader \in [ pos : {0}, len : {0, 2 * MaxSect, 4 * MaxSect} ]
    /\ read_log = <<>>
    /\ spc = "strings"

\* Lines 38-47: the strings section and read_names.
ReadStrings ==
    /\ spc = "strings"
    /\ \E dec \in {0, metadata.sizes[1].uncompressed_size}, parsed \in BOOLEAN :
           LET call == SectionCall(0, FALSE, dec)
           IN  /\ call.status = "ok"
               /\ SectionConsumed("strings", call, "")
               /\ spc' = IF parsed THEN "nodes" ELSE "err"
    /\ UNCHANGED <<metadata, version>>
    /\ UNCHANGED notSect

\* Lines 49-72: the nodes section and read_nodes in the dialect selected.
ReadNodes ==
    /\ spc = "nodes"
    /\ \E dec \in {0, metadata.sizes[2].uncompressed_size}, parsed \in BOOLEAN :
           LET call == SectionCall(1, TRUE, dec)
           IN  /\ call.status = "ok"
               /\ SectionConsumed("nodes", call,
                      IF LongNodes(version, metadata.has_sibling_data)
                      THEN "V3" ELSE "V2")
               /\ spc' = IF parsed THEN "attributes" ELSE "err"
    /\ UNCHANGED <<metadata, version>>
    /\ UNCHANGED notSect

\* Lines 74-96: the attributes section and read_attributes_v3 / _v2.
ReadAttributes ==
    /\ spc = "attributes"
    /\ \E dec \in {0, metadata.sizes[3].uncompressed_size}, parsed \in BOOLEAN :
           LET call == SectionCall(2, TRUE, dec)
           IN  /\ call.status = "ok"
               /\ SectionConsumed("attributes", call,
                      IF HasSiblingData(version, metadata.has_sibling_data)
                      THEN "V3" ELSE "V2")
               /\ spc' = IF parsed THEN "values" ELSE "err"
    /\ UNCHANGED <<metadata, version>>
    /\ UNCHANGED notSect

\* Lines 98-112: the values section and read_regions.
ReadValues ==
    /\ spc = "values"
    /\ \E dec \in {0, metadata.sizes[4].uncompressed_size}, parsed \in BOOLEAN :
           LET call == SectionCall(3, TRUE, dec)
           IN  /\ call.status = "ok"
               /\ SectionConsumed("values", call, "")
               /\ spc' = IF parsed THEN "ok" ELSE "err"
    /\ UNCHANGED <<metadata, version>>
    /\ UNCHANGED notSect

\* The `?` after a call of self.decompress: the read_exact or the codec
\* failed.
SectionFails ==
    /\ spc \in {"strings", "nodes", "attributes", "values"}
    /\ \E k \in 0..3 :
       \E dec \in {0, metadata.sizes[k + 1].uncompressed_size} :
           LET call == SectionCall(k, k # 0, dec)
           IN  /\ spc = <<"strings", "nodes", "attributes", "values">>[k + 1]
               /\ call.status # "ok"
               /\ IF call.codec
                  THEN SectionConsumed(spc, call, "")
                  ELSE UNCHANGED <<lsf_reader, read_log>>
    /\ spc' = "err"
    /\ UNCHANGED <<metadata, version>>
    /\ UNCHANGED notSect

NextSections ==
    \/ ReadStrings
    \/ ReadNodes
    \/ ReadAttributes
    \/ ReadValues
    \/ SectionFails

SpecSections ==
    InitSections /\ [][NextSections]_vars

\* The bytes the first k calls of the log consumed.
RECURSIVE ConsumedBefore(_)
ConsumedBefore(k) ==
    IF k = 0 THEN 0 ELSE ConsumedBefore(k - 1) + read_log[k].consumed

(***************************************************************************)
(* C22: the sections are consumed contiguously in the order strings,       *)
(* nodes, attributes, values; a section with size_on_disk = 0 consumes     *)
(* uncompressed_size raw bytes (none when that is 0 too) without the       *)
(* codec; any other consumes size_on_disk bytes when the low nibble of     *)
(* compression_flags is nonzero and uncompressed_size bytes when it is     *)
(* zero, and the codec gets chunked = allow_chunked /\ version >= 2, where *)
(* allow_chunked is false for the strings section only.                    *)
(***************************************************************************)
C22_SectionsConsumed ==
    \A k \in 1..Len(read_log) :
        LET size_on_disk == metadata.sizes[k].size_on_disk
            uncompressed_size == metadata.sizes[k].uncompressed_size
        IN  /\ read_log[k].section
                   = <<"strings", "nodes", "attributes", "values">>[k]
            /\ read_log[k].start = ConsumedBefore(k - 1)
            /\ IF size_on_disk = 0
               THEN /\ read_log[k].consumed = uncompressed_size
                    /\ ~read_log[k].codec
               ELSE /\ read_log[k].consumed
                           = IF metadata.compression_flags % 16 # 0
                             THEN size_on_disk ELSE uncompressed_size
                    /\ read_log[k].codec
                    /\ read_log[k].chunked
                           <=> (k # 1 /\ version.v >= 2)

(***************************************************************************)
(* C23: the node entries and the attribute entries of one read are of the  *)
(* same dialect, for every section that was read and handed to its        *)
(* parser: V3 when version >= 3 and has_sibling_data = 1, V2 in every      *)
(* other case.                                                             *)
(***************************************************************************)
C23_DialectsAgree ==
    \A k \in 1..Len(read_log) :
        ( /\ read_log[k].section \in {"nodes", "attributes"}
          /\ read_log[k].status = "ok" ) =>
            read_log[k].dialect
                = IF version.v >= 3 /\ metadata.has_sibling_data = 1
                  THEN "V3" ELSE "V2"

\* A version 3 file with has_sibling_data = 2: both sections read as V2.
C23_Witness ==
    /\ spc = "values"
    /\ version = Some(3)
    /\ metadata.has_sibling_data = 2
    /\ read_log[2].dialect = "V2"
    /\ read_log[3].dialect = "V2"

(***************************************************************************)
(* SpecValue: read_string and read_translated_fs_string on a value stream  *)
(* positioned at the start of the value.  The streams are byte strings of  *)
(* up to MaxStr bytes (ASCII, NUL, a two-byte UTF-8 character and bytes    *)
(* that are no UTF-8), and the encodings of TranslatedFSStrings nested     *)
(* MaxDepth deep, in both dialects, cut at every length.                   *)
(***************************************************************************)
StringBytes ==
    {0, 65, 195, 169, 255}

StringBlobs ==
    UNION { [1..n -> StringBytes] : n \in 0..MaxStr }

\* The little-endian bytes of an i32.
I32Bytes(n) ==
    LET m == IF n >= 0 THEN n ELSE (n + 2147483647) + 1
    IN  << m % 256, (m \div 256) % 256, (m \div 65536) % 256,
           (m \div 16777216) + (IF n >= 0 THEN 0 ELSE 128) >>

MinI32 ==
    (-2147483647) - 1

\* What precedes the handle: the u16 version from VerBG3 on, the
\* length-prefixed value before.
TfsHead(bg3) ==
    IF bg3 THEN <<1, 0>> ELSE I32Bytes(2) \o <<86, 0>>

TfsLeaf(bg3, argc) ==
    TfsHead(bg3) \o I32Bytes(2) \o <<72, 0>> \o I32Bytes(argc)

\* One argument: key, string, value.
TfsArgument(bg3, string) ==
    I32Bytes(2) \o <<75, 0>> \o string \o I32Bytes(2) \o <<65, 0>>

RECURSIVE TfsEncodings(_, _)
TfsEncodings(bg3, depth) ==
    { TfsLeaf(bg3, argc) : argc \in {0, -1, MinI32} } \cup
    ( IF depth = 0 THEN {}
      ELSE { TfsLeaf(bg3, 1) \o TfsArgument(bg3, string) :
                 string \in TfsEncodings(bg3, depth - 1) } )

TfsBlobs ==
    UNION { { SubSeq(e, 1, k) : k \in 0..Len(e) } :
                e \in TfsEncodings(TRUE, MaxDepth) \cup TfsEncodings(FALSE, MaxDepth) }

InitValue ==
    /\ names = <<>>
    /\ attributes = <<>>
    /\ values_len = 0
    /\ long_nodes = FALSE
    /\ TreeIdle
    /\ WalkIdle
    /\ HeadIdle
    /\ PkgIdle
    /\ AttrIdle
    /\ SectIdle
    /\ \/ /\ blob \in StringBlobs
          /\ vreq \in [ decoder : {"read_string"}, length : 0..(MaxStr + 1),
                        version : {None},
                        game_version : {PackedVersionDefault} ]
       \/ /\ blob \in TfsBlobs
          /\ vreq \in [ decoder : {"read_translated_fs_string"}, length : {0},
                        version : {None, Some(3), Some(VerBG3)},
                        game_version : {PackedVersionDefault} ]
       \/ /\ blob \in TfsBlobs
          /\ vreq \in [ decoder : {"read_translated_string"}, length : {0},
                        version : {None, Some(3), Some(VerBG3)},
                        game_version : [ major : {3, 4, 5}, minor : {0},
                                         revision : {0, 1}, build : {25, 26} ] ]
    /\ vres = NoValue

DecodeString ==
    /\ vres.status = "none"
    /\ vreq.decoder = "read_string"
    /\ vres' = ReadString(blob, 0, vreq.length)
    /\ UNCHANGED <<blob, vreq>>
    /\ UNCHANGED notValue

DecodeTranslatedFSString ==
    /\ vres.status = "none"
    /\ vreq.decoder = "read_translated_fs_string"
    /\ vres' = ReadTranslatedFSString(blob, 0, vreq.version)
    /\ UNCHANGED <<blob, vreq>>
    /\ UNCHANGED notValue

\* The TranslatedString arm of LSFReader::read_attribute.
DecodeTranslatedString ==
    /\ vres.status = "none"
    /\ vreq.decoder = "read_translated_string"
    /\ vres' = ReadTranslatedString(blob, 0, vreq.version, vreq.game_version)
    /\ UNCHANGED <<blob, vreq>>
    /\ UNCHANGED notValue

NextValue ==
    \/ DecodeString
    \/ DecodeTranslatedFSString
    \/ DecodeTranslatedString

SpecValue ==
    InitValue /\ [][NextValue]_vars

(***************************************************************************)
(* C14: read_string never fails because of invalid UTF-8: its only errors  *)
(* are a short read and a missing NUL terminator.                          *)
(***************************************************************************)
C14_NoUtf8Error ==
    (vreq.decoder = "read_string" /\ vres.status = "err") =>
        vres.err \in {"ShortRead", "NotNulTerminated"}

(***************************************************************************)
(* C15: a decode of a TranslatedFSString that reads a negative             *)
(* arguments_len, at any depth, returns a Malformed error and does not     *)
(* panic.                                                                  *)
(***************************************************************************)
C15_NegativeCountIsMalformed ==
    ( /\ vreq.decoder = "read_translated_fs_string"
      /\ vres.status # "none"
      /\ vres.count.some
      /\ vres.count.v < 0 ) =>
        vres.status = "err" /\ vres.err = "Malformed"

(***************************************************************************)
(* C24: a TranslatedString is decoded without an inline value (a u16       *)
(* version is read) exactly when the LSF version is >= 4, or the engine    *)
(* major is > 4, or it is 4 with revision > 0, or 4 with revision 0 and    *)
(* build >= 0x1A; otherwise its version is 0 and the inline value is       *)
(* kept.  A TranslatedFSString has no inline value exactly when the LSF    *)
(* version is >= 4, whatever the engine version.                           *)
(***************************************************************************)
C24_InlineValueGate ==
    /\ ( vreq.decoder = "read_translated_string" /\ vres.status = "ok" ) =>
           LET gv == vreq.game_version
               gate == \/ vreq.version \in {Some(4), Some(5), Some(6), Some(7)}
                       \/ gv.major > 4
                       \/ gv.major = 4 /\ gv.revision > 0
                       \/ gv.major = 4 /\ gv.revision = 0 /\ gv.build >= 26
           IN  /\ ~vres.value.value.some <=> gate
               /\ vres.value.value.some => vres.value.version = 0
               /\ ~vres.value.value.some =>
                      vres.value.version = blob[1] + 256 * blob[2]
               /\ vres.value.handle = <<72>>
    /\ ( vreq.decoder = "read_translated_fs_string" /\ vres.status = "ok" ) =>
           ( ~vres.value.base.value.some
                 <=> vreq.version \in {Some(4), Some(5), Some(6), Some(7)} )

\* LSF version 3 of engine 4.0.0.26: no inline value, by the build alone.
C24_Witness ==
    /\ vreq.decoder = "read_translated_string"
    /\ vreq.version = Some(3)
    /\ vreq.game_version = [major |-> 4, minor |-> 0, revision |-> 0, build |-> 26]
    /\ vres.status = "ok"
    /\ ~vres.value.value.some
    /\ vres.value.version = 1

(***************************************************************************)
(* C25: read_string on `length` bytes that the stream holds: length 0      *)
(* gives the empty string; a last byte other than NUL gives the            *)
(* missing-terminator error; otherwise the result is the input without     *)
(* its trailing NULs: a prefix of the input that does not end in NUL and   *)
(* is followed by NULs only.                                               *)
(***************************************************************************)
C25_TrailingNulsStripped ==
    ( /\ vreq.decoder = "read_string"
      /\ vres.status # "none"
      /\ vreq.length <= Len(blob) ) =>
        LET length == vreq.length
            n == Len(vres.value)
        IN  IF length = 0
            THEN vres.status = "ok" /\ vres.value = <<>>
            ELSE IF blob[length] # 0
            THEN vres.status = "err" /\ vres.err = "NotNulTerminated"
            ELSE /\ vres.status = "ok"
                 /\ n < length
                 /\ vres.value = SubSeq(blob, 1, n)
                 /\ \A k \in (n + 1)..length : blob[k] = 0
                 /\ n > 0 => vres.value[n] # 0

====
